---- MODULE Spec2Model ----
(***************************************************************************)
(* A model of lsst.resources: the S3 resource handle (buffered multipart   *)
(* upload behind a file-like interface) and transfer_from of the HTTP and  *)
(* S3 resource paths.                                                      *)
(*                                                                         *)
(* The specifications share the module's variables:                        *)
(*   Spec          one S3ResourceHandle and the S3 object it writes/reads  *)
(*   SeqSpec       one S3ResourceHandle that is only written, flushed and  *)
(*                 closed, with upload_part requests that may fail         *)
(*   TransferSpec  transfer_from calls between HTTP and S3 addresses       *)
(*   SessionSpec   the cached HTTP sessions and their construction from    *)
(*                 the environment, accessed one call after another        *)
(*   RaceSpec      two threads in the session properties                   *)
(*   DavSpec       mkdir and the WebDAV probe of HTTP addresses            *)
(*   IoSpec        read and write of HTTP addresses, write of S3 addresses *)
(*   AuthSpec      BearerTokenAuth over a token file that changes          *)
(*   FileSpec      one FileResourceHandle and the local file under it      *)
(***************************************************************************)
EXTENDS Integers, Sequences, FiniteSets, TLC

VARIABLES
    handle,      \* the S3ResourceHandle's fields
    s3,          \* the bucket/key the handle talks to, and the calls made
    lastOp,      \* the last handle operation, its arguments and outcome, and
                 \* whether the call before it raised
    written,     \* number of blocks handed to write()/writelines() so far
    inScope,     \* whether the caller is inside "with handle:"
    nops,        \* number of method calls made on the handle so far
    closeCalls,  \* number of close() calls among them
    store,       \* remote content by address: a body, or Absent
    env,         \* the process: debug logging, backoff installed, WebDAV server
    tcall,       \* arguments of the transfer_from call in progress
    tmode,       \* transfer_from's local variable "transfer"
    tpc,         \* where that call stands
    texc,        \* the exception transfer_from is raising, "none" otherwise
    tresult,     \* what the call returned to its caller
    reqs,        \* the requests the call has issued, in order
    tmpfile,     \* content of the local temporary file of as_local()
    retries,     \* retries made by the backoff wrapper of transfer_from
    inner,       \* retries made by the backoff wrapper of the source's method
    uploaded,    \* whether the call has written the destination
    webdav,      \* cached answer of isWebdavEndpoint: "unknown", "yes", "no"
    rmexc,       \* what the latest src.remove() of the call raised, if anything
    store0       \* the remote content when the call began

hvars == <<handle, s3, lastOp, written, inScope, nops, closeCalls>>

tvars == <<store, env, tcall, tmode, tpc, texc, tresult, reqs, tmpfile,
           retries, inner, uploaded, webdav, rmexc, store0>>

VARIABLES
    osenv,       \* os.environ and the modes of the credential files
    sessions,    \* the requests.Session objects constructed so far, by identity
    cls,         \* HttpResourcePath._session and ._upload_session (0: None)
    handed,      \* the objects each property has returned so far
    lastGet,     \* the latest access of a session property and its outcome
    thr,         \* position and locals of each thread inside a property
    server,      \* what each address holds on its server
    davhdr,      \* per root: does the OPTIONS response carry a DAV header
    lru,         \* the functools.lru_cache of isWebdavEndpoint (by root) and
                 \* of _send_expect_header_on_put
    inst,        \* _is_webdav of the long-lived instance of each address
    wreqs,       \* the requests of the latest operation, in order, and how
                 \* many OPTIONS requests each root has received so far
    lastCall     \* the latest operation, its arguments and its outcome

svars == <<osenv, sessions, cls, handed, lastGet, thr>>

wvars == <<server, davhdr, lru, inst, wreqs, lastCall>>

VARIABLES
    tokfile,     \* the bearer token file: its text and modification time
    bearer,      \* the BearerTokenAuth object: _token, _path, _mtime
    lastReq,     \* the latest request passed through the auth object
    fobj,        \* the FileResourceHandle: _closed and its _fileHandle
    disk,        \* the bytes of the file the FileResourceHandle has open
    lastFileOp   \* the latest FileResourceHandle call and its outcome

avars == <<tokfile, bearer, lastReq>>

fvars == <<fobj, disk, lastFileOp>>

vars == <<hvars, tvars, svars, wvars, avars, fvars>>

(***************************************************************************)
(* Remote addresses: two keys of one bucket, two paths of one HTTP server. *)
(***************************************************************************)
S3Addrs == {"s3://bucket/a", "s3://bucket/b"}

HttpAddrs == {"https://server/a", "https://server/b"}

Addrs == S3Addrs \cup HttpAddrs

Absent == "absent"

NoCall == [dst |-> "none", src |-> "none", transfer |-> "none", overwrite |-> FALSE]

\* Environment of the session construction: the three authentication
\* variables, the CA bundle, and the permission bits of the two credential
\* files.  "" is an unset (or empty) variable.
NoEnv == [token |-> "", cert |-> "", key |-> "", cabundle |-> "",
          tokenmode |-> 256, keymode |-> 256, expect |-> FALSE]

Threads == {1, 2}

IdleThread == [pc |-> "idle", prop |-> "none", ret |-> 0, new |-> 0, sentOn |-> 0, calls |-> 0]

NoGet == [prop |-> "none", raised |-> "none", ret |-> 0, built |-> FALSE]

SessionIdle ==
    /\ osenv = NoEnv
    /\ sessions = <<>>
    /\ cls = [session |-> 0, upload_session |-> 0]
    /\ handed = [session |-> {}, upload_session |-> {}]
    /\ lastGet = NoGet
    /\ thr = [t \in Threads |-> IdleThread]

\* Addresses of the HTTP and S3 operations: a root, the names below it, and
\* whether the address is directory-like.
Path(root, names, dir) == [root |-> root, names |-> names, dir |-> dir]

Roots == {"https://h1/", "https://h2/"}

HttpPaths ==
    {Path("https://h1/", <<>>, TRUE), Path("https://h1/", <<"d">>, TRUE),
     Path("https://h1/", <<"d", "e">>, TRUE), Path("https://h1/", <<"d", "f">>, FALSE),
     Path("https://h2/", <<>>, TRUE), Path("https://h2/", <<"g">>, FALSE)}

S3Paths == {Path("s3://bucket/", <<"k">>, FALSE)}

Paths == HttpPaths \cup S3Paths

NoFault == [m |-> "none", status |-> 0]

\* What an address holds: nothing, or a body (a directory: no bytes).
Gone == [exists |-> FALSE, body |-> <<>>]

Holding(body) == [exists |-> TRUE, body |-> body]

NoHolds == [a \in Paths |-> Gone]

NoOp == [op |-> "none", a |-> Path("none", <<>>, FALSE), raised |-> "none",
         body |-> <<>>, answer |-> "none", status |-> 0, overwrite |-> FALSE,
         before |-> NoHolds, n |-> 0]

WebIdle ==
    /\ server = [holds |-> NoHolds, fault |-> NoFault, redirect |-> FALSE]
    /\ davhdr = [r \in Roots |-> FALSE]
    /\ lru = [dav |-> [r \in Roots |-> "miss"], expect |-> "miss"]
    /\ inst = [a \in HttpPaths |-> "None"]
    /\ wreqs = [log |-> <<>>, options |-> [r \in Roots |-> 0]]
    /\ lastCall = NoOp

\* An HTTP header value: none, or "Bearer <credentials>".
NoHeader == [scheme |-> "none", credentials |-> <<>>]

\* No token file in use and no request made.
AuthIdle ==
    /\ tokfile = [text |-> <<>>, mtime |-> 0]
    /\ bearer = [token |-> <<>>, path |-> "", mtime |-> -1]
    /\ lastReq = [n |-> 0, authorization |-> NoHeader]

\* No FileResourceHandle opened.
FileIdle ==
    /\ fobj = [closed |-> "UNSET", mode |-> "none", file |-> [closed |-> TRUE, pos |-> 0]]
    /\ disk = <<>>
    /\ lastFileOp = [n |-> 0, op |-> "none", raised |-> "none"]

\* No transfer in progress, nothing stored: the transfer side while the
\* handle's specification runs.
TransferIdle ==
    /\ store = [a \in Addrs |-> Absent]
    /\ store0 = [a \in Addrs |-> Absent]
    /\ env = [debug |-> FALSE, backoff |-> FALSE, dav |-> FALSE]
    /\ tcall = NoCall
    /\ tmode = "none"
    /\ tpc = "idle"
    /\ texc = "none"
    /\ tresult = "none"
    /\ reqs = <<>>
    /\ tmpfile = Absent
    /\ retries = 0
    /\ inner = 0
    /\ uploaded = FALSE
    /\ webdav = "unknown"
    /\ rmexc = "none"

(***************************************************************************)
(* Bounds.  Bytes are modelled in blocks: BlocksPerPart blocks make up the *)
(* 5 MiB minimum part size, so every size the code compares against the    *)
(* threshold is a whole number of blocks.                                  *)
(***************************************************************************)
BlocksPerPart == 2
MaxBlocks == 3
MaxParts == 2
MaxCloses == 2
MaxReads == 3
MaxOps == 6

\* 5242880 in S3ResourceHandle.flush
MinPartSize == 5242880

BlockSize == MinPartSize \div BlocksPerPart

\* Size in bytes of n blocks.
Bytes(n) == n * BlockSize

\* Python's None for the Optional[int] _last_flush_position
None == -1

SEEK_SET == 0
SEEK_CUR == 1
SEEK_END == 2

Max(a, b) == IF a >= b THEN a ELSE b

Min(a, b) == IF a < b THEN a ELSE b

RECURSIVE Flatten(_)
Flatten(ss) == IF ss = <<>> THEN <<>> ELSE Head(ss) \o Flatten(Tail(ss))

(***************************************************************************)
(* io.BytesIO, as the handle uses it: a byte string and a stream position. *)
(***************************************************************************)
\* BytesIO.write(b) at stream position pos: a position past the end is
\* zero-filled first, bytes under the cursor are overwritten.
BytesIO_write(buf, pos, b) ==
    LET padded == IF pos > Len(buf)
                  THEN buf \o [i \in 1..(pos - Len(buf)) |-> 0]
                  ELSE buf
        endpos == pos + Len(b)
        newlen == Max(endpos, Len(padded))
    IN  [i \in 1..newlen |->
            IF i > pos /\ i <= endpos THEN b[i - pos] ELSE padded[i]]

\* BytesIO.seek(offset, whence): the new stream position, or -1 for the
\* ValueError of a negative absolute offset.  Relative seeks clamp at 0.
BytesIO_seek(buf, pos, offset, whence) ==
    CASE whence = SEEK_SET -> IF offset < 0 THEN -1 ELSE offset
      [] whence = SEEK_CUR -> Max(0, pos + offset)
      [] whence = SEEK_END -> Max(0, Len(buf) + offset)

\* BytesIO.truncate(size): size None means the current stream position;
\* the value only ever shrinks.
BytesIO_truncate(buf, pos, size) ==
    LET n == IF size = None THEN pos ELSE size
    IN  IF n < Len(buf) THEN SubSeq(buf, 1, n) ELSE buf

\* BytesIO.read(size) from stream position pos.
BytesIO_read(buf, pos, size) ==
    IF pos >= Len(buf) THEN <<>>
    ELSE IF size < 0 THEN SubSeq(buf, pos + 1, Len(buf))
    ELSE SubSeq(buf, pos + 1, IF pos + size > Len(buf) THEN Len(buf) ELSE pos + size)

(***************************************************************************)
(* The S3 side of one bucket/key: the stored object, the multipart upload  *)
(* session the handle created, and how often each client call was issued.  *)
(***************************************************************************)
NoCalls ==
    [create_multipart_upload |-> 0, upload_part |-> 0,
     complete_multipart_upload |-> 0, put_object |-> 0, get_object |-> 0]

Count(s, call) == [s EXCEPT !.calls[call] = @ + 1]

\* client.upload_part(Body, PartNumber): stores the part under its number;
\* an upload id that is no longer open is refused (NoSuchUpload), and while
\* the endpoint cannot be reached (partFault) the request raises.
upload_part(s, body, partNumber) ==
    LET s1 == Count(s, "upload_part")
    IN  IF s.partFault
        THEN [s |-> s1, raised |-> "ConnectionError"]
        ELSE IF s.upload # "open"
        THEN [s |-> s1, raised |-> "ClientError"]
        ELSE [s |-> [s1 EXCEPT !.uploads = [n \in DOMAIN @ \cup {partNumber} |->
                                   IF n = partNumber THEN body ELSE @[n]]],
              raised |-> "none"]

\* client.complete_multipart_upload(Parts): the object becomes the listed
\* parts' bodies in list order and the session ends.
complete_multipart_upload(s, parts) ==
    LET s1 == Count(s, "complete_multipart_upload")
    IN  IF s.upload # "open"
        THEN [s |-> s1, raised |-> "ClientError"]
        ELSE [s |-> [s1 EXCEPT
                       !.object = [exists |-> TRUE,
                                   body |-> Flatten([i \in 1..Len(parts) |->
                                                s.uploads[parts[i].PartNumber]])],
                       !.upload = "completed"],
              raised |-> "none"]

\* client.put_object(Body): replaces the object in one request.
put_object(s, body) ==
    [Count(s, "put_object") EXCEPT !.object = [exists |-> TRUE, body |-> body]]

(***************************************************************************)
(* S3ResourceHandle.  Each method is an operator from the handle h and the *)
(* S3 side s to [h, s, raised, ret]: the fields after the call, the        *)
(* exception that left it ("none" when it returned) and its return value.  *)
(***************************************************************************)
Out(h, s, raised, ret) == [h |-> h, s |-> s, raised |-> raised, ret |-> ret]

HasPlus(mode) == mode \in {"r+", "w+"}

\* self._last_flush_position or 0
LastFlushOr0(h) == IF h.last_flush_position = None THEN 0 ELSE h.last_flush_position

\* (self.tell() - (self._last_flush_position or 0)) < 5242880
BelowPartSize(h) == Bytes(h.position - LastFlushOr0(h)) < MinPartSize

\* The guard that makes flush() warn and return without uploading.
SkipSmallFlush(h) == BelowPartSize(h) /\ h.closed # "CLOSING" /\ ~h.warned

\* "nothing to write, don't create an empty upload": if self.tell() == 0
NothingToWrite(h) == h.position = 0

\* flush() that takes the next part number before the upload returned.
flush_countsFailedPart(h, s) ==
    IF h.closed = "UNSET" THEN Out(h, s, "AttributeError", 0)
    ELSE IF h.closed = "CLOSED" \/ ~h.writable \/ HasPlus(h.mode) THEN Out(h, s, "none", 0)
    ELSE IF SkipSmallFlush(h) THEN Out([h EXCEPT !.warned = TRUE], s, "none", 0)
    ELSE IF NothingToWrite(h) THEN Out(h, s, "none", 0)
    ELSE LET up == upload_part(s, h.buffer, h.partNo)
         IN  IF up.raised # "none" THEN Out([h EXCEPT !.partNo = @ + 1], up.s, up.raised, 0)
             ELSE Out([h EXCEPT
                         !.parts = Append(@, [PartNumber |-> h.partNo, ETag |-> h.partNo]),
                         !.partNo = @ + 1,
                         !.last_flush_position = h.bufpos + LastFlushOr0(h),
                         !.buffer = <<>>,
                         !.bufpos = 0],
                      up.s, "none", 0)

flush(h, s) ==
    IF h.closed = "UNSET" THEN Out(h, s, "AttributeError", 0)
    ELSE IF h.closed = "CLOSED" \/ ~h.writable \/ HasPlus(h.mode) THEN Out(h, s, "none", 0)
    ELSE IF SkipSmallFlush(h) THEN Out([h EXCEPT !.warned = TRUE], s, "none", 0)
    ELSE IF NothingToWrite(h) THEN Out(h, s, "none", 0)
    ELSE LET up == upload_part(s, h.buffer, h.partNo)
         IN  IF up.raised # "none" THEN Out(h, up.s, up.raised, 0)
             ELSE Out([h EXCEPT
                         !.parts = Append(@, [PartNumber |-> h.partNo, ETag |-> h.partNo]),
                         !.partNo = @ + 1,
                         !.last_flush_position = h.bufpos + LastFlushOr0(h),
                         !.buffer = <<>>,
                         !.bufpos = 0],
                      up.s, "none", 0)

close(h, s) ==
    IF ~h.writable THEN Out([h EXCEPT !.closed = "CLOSED"], s, "none", 0)
    ELSE IF h.parts # <<>>
    THEN LET f == flush([h EXCEPT !.closed = "CLOSING"], s)
             c == complete_multipart_upload(f.s, f.h.parts)
         IN  IF f.raised # "none" THEN f
             ELSE IF c.raised # "none" THEN Out(f.h, c.s, c.raised, 0)
             ELSE Out([f.h EXCEPT !.closed = "CLOSED"], c.s, "none", 0)
    ELSE Out([h EXCEPT !.closed = "CLOSED"], put_object(s, h.buffer), "none", 0)

\* SeekRefused with the boundary test off by one (<= for <): a seek to
\* exactly the flushed position would be refused too.
SeekRefused_boundary(h, offset, whence) ==
    /\ h.last_flush_position # None
    /\ \/ whence = SEEK_SET /\ offset - h.last_flush_position <= 0
       \/ whence = SEEK_CUR /\ h.position - h.last_flush_position < 0
       \/ whence = SEEK_END

\* SeekRefused without the test for seeks relative to the end.
SeekRefused_endAllowed(h, offset, whence) ==
    /\ h.last_flush_position # None
    /\ \/ whence = SEEK_SET /\ offset - h.last_flush_position < 0
       \/ whence = SEEK_CUR /\ h.position - h.last_flush_position < 0

\* Writable handle, a part already flushed: the seek targets a position
\* before the flushed data ("can not seek prior to already flushed
\* positions") or is relative to the unknown end.
SeekRefused(h, offset, whence) ==
    /\ h.last_flush_position # None
    /\ \/ whence = SEEK_SET /\ offset - h.last_flush_position < 0
       \/ whence = SEEK_CUR /\ h.position - h.last_flush_position < 0
       \/ whence = SEEK_END

seek(h, s, offset, whence) ==
    IF h.writable
    THEN IF SeekRefused(h, offset, whence) THEN Out(h, s, "OSError", 0)
         ELSE LET off == IF h.last_flush_position # None /\ whence = SEEK_SET
                         THEN offset - h.last_flush_position ELSE offset
                  pos == BytesIO_seek(h.buffer, h.bufpos, off, whence)
              IN  IF pos < 0 THEN Out(h, s, "ValueError", 0)
                  ELSE Out([h EXCEPT !.bufpos = pos, !.position = pos], s, "none", pos)
    ELSE LET pos == CASE whence = SEEK_SET -> offset
                      [] whence = SEEK_CUR -> h.position + offset
                      [] whence = SEEK_END ->
                             h.position - (IF offset < 0 THEN -offset ELSE offset)
         IN  Out([h EXCEPT !.position = pos], s, "none", pos)

truncate(h, s, size) ==
    IF ~h.writable THEN Out(h, s, "OSError", 0)
    ELSE IF size # None /\ size < 0 THEN Out(h, s, "ValueError", 0)
    ELSE Out([h EXCEPT !.buffer = BytesIO_truncate(h.buffer, h.bufpos, size)],
             s, "none", h.position)

write(h, s, b) ==
    IF ~h.writable THEN Out(h, s, "OSError", 0)
    ELSE Out([h EXCEPT !.buffer = BytesIO_write(h.buffer, h.bufpos, b),
                       !.bufpos = h.bufpos + Len(b),
                       !.position = h.bufpos + Len(b)],
             s, "none", Len(b))

\* writelines(lines): BytesIO.writelines writes the lines one after another.
writelines(h, s, lines) ==
    IF ~h.writable THEN Out(h, s, "OSError", 0)
    ELSE LET b == Flatten(lines)
         IN  Out([h EXCEPT !.buffer = BytesIO_write(h.buffer, h.bufpos, b),
                           !.bufpos = h.bufpos + Len(b),
                           !.position = h.bufpos + Len(b)],
                 s, "none", 0)

\* client.get_object(Range="bytes=<first>-<stop>"), stop < 0 standing for
\* the open-ended range.  A missing key is NoSuchKey, a first byte at or
\* past the end InvalidRange; a range that is no byte range at all (a
\* negative first byte) is ignored by the server, which sends the object.
get_object(s, first, stop) ==
    LET s1 == Count(s, "get_object")
        n  == Len(s.object.body)
    IN  IF ~s.object.exists THEN [s |-> s1, raised |-> "ClientError", body |-> <<>>]
        ELSE IF first < 0 THEN [s |-> s1, raised |-> "none", body |-> s.object.body]
        ELSE IF first >= n THEN [s |-> s1, raised |-> "ClientError", body |-> <<>>]
        ELSE [s |-> s1, raised |-> "none",
              body |-> SubSeq(s.object.body, first + 1,
                              IF stop < 0 \/ stop >= n THEN n ELSE stop + 1)]

\* read() of a reader that advances from the position it had.
read_advancing(h, s, size) ==
    IF ~h.readable THEN Out(h, s, "OSError", <<>>)
    ELSE IF HasPlus(h.mode)
    THEN LET data == BytesIO_read(h.buffer, h.position, size)
         IN  Out([h EXCEPT !.bufpos = h.position + Len(data)], s, "none", data)
    ELSE LET stop == IF size > 0 THEN h.position + size - 1 ELSE -1
             got  == get_object(s, h.position, stop)
         IN  IF got.raised # "none" THEN Out(h, got.s, got.raised, <<>>)
             ELSE Out([h EXCEPT !.position = @ + Len(got.body)], got.s, "none", got.body)

read(h, s, size) ==
    IF ~h.readable THEN Out(h, s, "OSError", <<>>)
    ELSE IF HasPlus(h.mode)
    THEN LET data == BytesIO_read(h.buffer, h.position, size)
         IN  Out([h EXCEPT !.bufpos = h.position + Len(data)], s, "none", data)
    ELSE LET stop == IF size > 0 THEN h.position + size - 1 ELSE -1
             got  == get_object(s, h.position, stop)
         IN  IF got.raised # "none" THEN Out(h, got.s, got.raised, <<>>)
             ELSE Out([h EXCEPT !.position = Len(got.body)], got.s, "none", got.body)

\* S3ResourceHandle.__init__(mode): the handle right after construction.
\* BaseResourceHandle.__init__ does not assign _closed; only __enter__ and
\* close() do, so a new handle has no close status yet ("UNSET").
NewHandle(mode) ==
    [mode |-> mode, closed |-> "UNSET", buffer |-> <<>>, bufpos |-> 0,
     position |-> 0, writable |-> FALSE, last_flush_position |-> None,
     warned |-> FALSE, readable |-> mode \in {"r", "r+", "w+"},
     partNo |-> 0, parts |-> <<>>]

\* __init__ that opens every writable handle on an empty buffer.
S3ResourceHandle_noLoad(mode, s) ==
    IF mode = "r" THEN Out(NewHandle(mode), s, "none", 0)
    ELSE Out([NewHandle(mode) EXCEPT !.writable = TRUE, !.partNo = 1],
             [Count(s, "create_multipart_upload") EXCEPT !.upload = "open"], "none", 0)

S3ResourceHandle(mode, s) ==
    IF mode = "r" THEN Out(NewHandle(mode), s, "none", 0)
    ELSE LET s1 == [Count(s, "create_multipart_upload") EXCEPT !.upload = "open"]
             h1 == [NewHandle(mode) EXCEPT !.writable = TRUE, !.partNo = 1]
         IN  IF mode = "w" THEN Out(h1, s1, "none", 0)
             ELSE \* 'a' or '+': self.write(self.read()) as a plain reader
                  LET r == read([h1 EXCEPT !.readable = TRUE, !.mode = "r"], s1, -1)
                      w == write([r.h EXCEPT !.mode = mode,
                                             !.readable = h1.readable], r.s, r.ret)
                      k == seek(w.h, w.s, 0, SEEK_SET)
                  IN  IF r.raised # "none" THEN r
                      ELSE IF ~HasPlus(mode) THEN w
                      ELSE IF mode # "w+" THEN k
                      ELSE truncate(k.h, k.s, None)

(***************************************************************************)
(* The handle's specification: a caller opens one handle on a key that     *)
(* holds ExistingBody or nothing, and calls its methods in any order.      *)
(***************************************************************************)
Modes == {"r", "w", "a", "r+", "w+"}

\* Content of the key before the handle is opened (blocks 101, 102).
ExistingBody == <<101, 102>>

MaxPos == MaxBlocks

\* The furthest position explored: an append handle starts writing at
\* the end of the existing object, the others at 0.
StreamBound(h) == IF h.mode = "a" THEN MaxPos + Len(ExistingBody) ELSE MaxPos

\* seek() arguments: every absolute offset, a step back and a step on from
\* the current position, the end and a step back from the end.
SeekArgs ==
    {<<o, SEEK_SET>> : o \in -1..MaxPos}
        \cup {<<o, SEEK_CUR>> : o \in {-1, 1}} \cup {<<o, SEEK_END>> : o \in {-1, 0}}

\* The blocks the n-th write hands over: fresh, so every written block is
\* told apart from every other and from the zero fill.
Payload(n) == [i \in 1..n |-> written + i]

FinalizeCalls(s) == s.calls.put_object + s.calls.complete_multipart_upload

Op(name, arg, whence, r) ==
    /\ nops < MaxOps
    /\ nops' = nops + 1
    /\ r.h.position \in -MaxPos..StreamBound(r.h)
    /\ r.h.bufpos <= StreamBound(r.h)
    /\ handle' = r.h
    /\ s3' = r.s
    /\ lastOp' = [op |-> name, arg |-> arg, whence |-> whence,
                  raised |-> r.raised, ret |-> r.ret,
                  after |-> lastOp.raised # "none"]
    /\ UNCHANGED <<tvars, svars, wvars, avars, fvars>>

HandleInit ==
    /\ \E mode \in Modes, exists \in BOOLEAN :
          LET s0 == [object |-> [exists |-> exists,
                                 body |-> IF exists THEN ExistingBody ELSE <<>>],
                     upload |-> "none", uploads |-> <<>>, calls |-> NoCalls,
                     partFault |-> FALSE]
              c  == S3ResourceHandle(mode, s0)
          IN  /\ c.raised = "none"
              /\ handle = c.h
              /\ s3 = c.s
    /\ lastOp = [op |-> "init", arg |-> 0, whence |-> 0, raised |-> "none", ret |-> 0,
                 after |-> FALSE]
    /\ written = 0
    /\ inScope = FALSE
    /\ nops = 0
    /\ closeCalls = 0

\* BaseResourceHandle.__enter__
Enter ==
    /\ ~inScope
    /\ inScope' = TRUE
    /\ Op("enter", 0, 0, Out([handle EXCEPT !.closed = "OPEN"], s3, "none", 0))
    /\ UNCHANGED <<written, closeCalls>>

\* __exit__ that leaves the scope without calling close().
Exit_withoutClose ==
    /\ inScope
    /\ closeCalls < MaxCloses
    /\ s3.calls.upload_part <= MaxParts
    /\ inScope' = FALSE
    /\ closeCalls' = closeCalls + 1
    /\ Op("exit", 0, 0, Out(handle, s3, "none", 0))
    /\ UNCHANGED written

\* BaseResourceHandle.__exit__: calls close(), whatever the body did.
Exit ==
    /\ inScope
    /\ closeCalls < MaxCloses
    /\ s3.calls.upload_part <= MaxParts
    /\ inScope' = FALSE
    /\ closeCalls' = closeCalls + 1
    /\ Op("exit", 0, 0, close(handle, s3))
    /\ UNCHANGED written

Close ==
    /\ closeCalls < MaxCloses
    /\ s3.calls.upload_part <= MaxParts
    /\ closeCalls' = closeCalls + 1
    /\ Op("close", 0, 0, close(handle, s3))
    /\ UNCHANGED <<written, inScope>>

Flush ==
    /\ s3.calls.upload_part < MaxParts
    /\ Op("flush", 0, 0, flush(handle, s3))
    /\ UNCHANGED <<written, inScope, closeCalls>>

Seek ==
    \E a \in SeekArgs :
        /\ Op("seek", a[1], a[2], seek(handle, s3, a[1], a[2]))
        /\ UNCHANGED <<written, inScope, closeCalls>>

Truncate ==
    \E size \in {None, 0, 1} :
        /\ Op("truncate", size, 0, truncate(handle, s3, size))
        /\ UNCHANGED <<written, inScope, closeCalls>>

Write ==
    \E n \in 1..BlocksPerPart :
        /\ written + n <= MaxBlocks
        /\ Op("write", n, 0, write(handle, s3, Payload(n)))
        /\ written' = written + n
        /\ UNCHANGED <<inScope, closeCalls>>

\* writelines with two lines of one block each.
Writelines ==
    /\ written + 2 <= MaxBlocks
    /\ Op("writelines", 2, 0,
          writelines(handle, s3, <<SubSeq(Payload(2), 1, 1), SubSeq(Payload(2), 2, 2)>>))
    /\ written' = written + 2
    /\ UNCHANGED <<inScope, closeCalls>>

Read ==
    \E size \in {-1, 1, 2} :
        /\ s3.calls.get_object < MaxReads
        /\ Op("read", size, 0, read(handle, s3, size))
        /\ UNCHANGED <<written, inScope, closeCalls>>

HandleNext ==
    \/ Enter
    \/ Exit
    \/ Close
    \/ Flush
    \/ Seek
    \/ Truncate
    \/ Write
    \/ Writelines
    \/ Read

Init == HandleInit /\ TransferIdle /\ SessionIdle /\ WebIdle /\ AuthIdle /\ FileIdle

Spec == Init /\ [][HandleNext]_vars

(***************************************************************************)
(* A sequential writer: a handle opened with mode w or a that is only      *)
(* written to, flushed and closed, while upload_part requests may fail.    *)
(***************************************************************************)
SeqModes == {"w", "a"}

\* The endpoint stops or starts answering upload_part requests.
PartFault ==
    /\ nops < MaxOps
    /\ s3' = [s3 EXCEPT !.partFault = ~@]
    /\ UNCHANGED <<handle, lastOp, written, inScope, nops, closeCalls,
                   tvars, svars, wvars, avars, fvars>>

SeqInit ==
    /\ HandleInit
    /\ handle.mode \in SeqModes
    /\ TransferIdle /\ SessionIdle /\ WebIdle /\ AuthIdle /\ FileIdle

SeqNext ==
    \/ Enter
    \/ Exit
    \/ Close
    \/ Flush
    \/ Write
    \/ Writelines
    \/ PartFault

SeqSpec == SeqInit /\ [][SeqNext]_vars

(***************************************************************************)
(* Properties of the handle, checked under Spec.                           *)
(***************************************************************************)
\* The bodies of the parts uploaded so far, in part-number order.
UploadedBodies(h, s) == Flatten([i \in 1..Len(h.parts) |-> s.uploads[h.parts[i].PartNumber]])

IsCloseOp(op) == op \in {"close", "exit"}

\* C1: when close() of a write-mode handle with at least one uploaded part
\* returns, the object is the uploaded parts' bodies in part-number order
\* followed by the bytes that were still in the buffer when close() began.
C1_ObjectIsPartsThenBuffer ==
    [][(/\ nops' = nops + 1
        /\ IsCloseOp(lastOp'.op)
        /\ lastOp'.raised = "none"
        /\ handle.mode = "w"
        /\ handle.parts # <<>>)
       => s3'.object.body = UploadedBodies(handle, s3) \o handle.buffer]_vars

\* C2: while a write-mode handle has been given fewer than 5 MiB in total,
\* it has issued no upload_part, and its first close() issued exactly one
\* put_object.
C2_SmallWriteSinglePut ==
    (handle.mode = "w" /\ Bytes(written) < MinPartSize)
        => /\ s3.calls.upload_part = 0
           /\ closeCalls = 0 => s3.calls.put_object = 0
           /\ closeCalls = 1 => s3.calls.put_object = 1

\* C3: on a writable handle with an uploaded part, seek(offset, SEEK_SET)
\* raises OSError exactly when offset < last_flush_position and returns
\* normally for every offset >= last_flush_position.
C3_AbsoluteSeekBoundary ==
    (/\ lastOp.op = "seek"
     /\ lastOp.whence = SEEK_SET
     /\ handle.writable
     /\ handle.last_flush_position # None)
        => /\ lastOp.raised = "OSError" <=> lastOp.arg < handle.last_flush_position
           /\ lastOp.arg >= handle.last_flush_position => lastOp.raised = "none"

\* C3 witness: an absolute seek one block below the flushed position was
\* refused.
C3_Witness ==
    /\ lastOp.op = "seek"
    /\ lastOp.whence = SEEK_SET
    /\ handle.writable
    /\ handle.last_flush_position # None
    /\ lastOp.arg >= 0
    /\ lastOp.arg = handle.last_flush_position - 1
    /\ lastOp.raised = "OSError"

\* C4: a writable handle runs its finalize step (complete_multipart_upload
\* or the single put_object) at most once however often close() is called,
\* and once close() has returned it has run it.
C4_FinalizeOnce ==
    handle.writable
        => /\ FinalizeCalls(s3) <= 1
           /\ (closeCalls >= 1 /\ handle.closed = "CLOSED") => FinalizeCalls(s3) = 1

\* C5: on a handle whose close status is CLOSED, every read, write,
\* writelines, seek, truncate and flush call raises OSError, leaves the
\* handle's fields as they were and issues no S3 call.
C5_ClosedHandleRejectsIO ==
    [][(/\ nops' = nops + 1
        /\ handle.closed = "CLOSED"
        /\ lastOp'.op \in {"read", "write", "writelines", "seek", "truncate", "flush"})
       => /\ lastOp'.raised = "OSError"
          /\ handle' = handle
          /\ s3' = s3]_vars

\* C22: __enter__ sets the close status to OPEN, and __exit__ runs close()
\* exactly once (one more close() call, the handle and the S3 side as that
\* one close() leaves them, its exception passed on), whether or not the
\* last call of the body raised.
C22_ScopeOpensAndClosesOnce ==
    [][(nops' = nops + 1)
       => /\ lastOp'.op = "enter" => handle'.closed = "OPEN"
          /\ lastOp'.op = "exit"
                => /\ closeCalls' = closeCalls + 1
                   /\ handle' = close(handle, s3).h
                   /\ s3' = close(handle, s3).s
                   /\ lastOp'.raised = close(handle, s3).raised]_vars

\* C22 witness: the scope was entered, the last call of the body raised, and
\* leaving the scope closed the handle with its one finalize call.
C22_Witness ==
    /\ lastOp.op = "exit"
    /\ lastOp.after
    /\ lastOp.raised = "none"
    /\ handle.writable
    /\ closeCalls = 1
    /\ handle.closed = "CLOSED"
    /\ FinalizeCalls(s3) = 1

\* The handle was opened for writing only, was given one payload below the
\* part threshold by a single write() and was then closed: its whole life.
WrittenOnceAndClosed ==
    /\ handle.mode = "w"
    /\ nops = 2
    /\ written >= 1
    /\ Bytes(written) < MinPartSize
    /\ lastOp.op = "close"
    /\ lastOp.raised = "none"

\* C24: a write-mode handle that is constructed, written with a payload
\* below the part threshold and closed has issued exactly one put_object,
\* whose body is the payload, and no create_multipart_upload, upload_part or
\* complete_multipart_upload.
C24_SmallObjectNoMultipartCall ==
    WrittenOnceAndClosed
        => /\ s3.calls.put_object = 1
           /\ s3.object = [exists |-> TRUE, body |-> [i \in 1..written |-> i]]
           /\ s3.calls.create_multipart_upload = 0
           /\ s3.calls.upload_part = 0
           /\ s3.calls.complete_multipart_upload = 0

\* A flush() call on a handle opened for writing only (modes w and a) that
\* is not in the CLOSING phase.
FlushOfWriteHandle ==
    /\ nops' = nops + 1
    /\ lastOp'.op = "flush"
    /\ handle.writable
    /\ ~HasPlus(handle.mode)
    /\ handle.closed # "CLOSING"

\* C25: such a flush() made while fewer than 5 MiB have accumulated since
\* the last flush uploads no part, raises nothing and leaves the buffer,
\* the parts list and last_flush_position as they were; made when 5 MiB or
\* more have accumulated, it uploads a part.
C25_SmallFlushSkipped ==
    [][FlushOfWriteHandle
       => IF BelowPartSize(handle)
          THEN /\ s3'.calls.upload_part = s3.calls.upload_part
               /\ lastOp'.raised = "none"
               /\ handle'.buffer = handle.buffer
               /\ handle'.parts = handle.parts
               /\ handle'.last_flush_position = handle.last_flush_position
          ELSE s3'.calls.upload_part = s3.calls.upload_part + 1]_vars

\* A call that runs flush() on a writable handle: flush() itself, or close()
\* (called directly or on leaving the scope), which forces a flush when a
\* part was uploaded before.
RunsFlush ==
    /\ nops' = nops + 1
    /\ handle.writable
    /\ \/ lastOp'.op = "flush"
       \/ IsCloseOp(lastOp'.op) /\ handle.parts # <<>>

\* The flush is skipped by the size rule: below the threshold outside the
\* CLOSING phase.
SkippedBySize == lastOp'.op = "flush" /\ BelowPartSize(handle)

\* C26: a flush of a writable handle whose buffer holds no bytes never calls
\* upload_part and adds no part, in every phase, the flush forced by close()
\* included; and a flush of a write-only handle that is open and not skipped
\* by the size rule uploads a part whenever the buffer holds bytes.
C26_NoEmptyPart ==
    [][RunsFlush
       => /\ handle.buffer = <<>>
                => /\ s3'.calls.upload_part = s3.calls.upload_part
                   /\ handle'.parts = handle.parts
          /\ (/\ handle.buffer # <<>>
              /\ ~SkippedBySize
              /\ ~HasPlus(handle.mode)
              /\ handle.closed = "OPEN")
                => s3'.calls.upload_part = s3.calls.upload_part + 1]_vars

\* A call in which flush() uploaded a part.
UploadsPart ==
    /\ nops' = nops + 1
    /\ lastOp'.op \in {"flush", "close", "exit"}
    /\ s3'.calls.upload_part = s3.calls.upload_part + 1
    /\ Len(handle'.parts) > Len(handle.parts)

\* C27: each flush that uploads a part appends exactly one entry, numbered
\* one more than the previous entry (1 for the first), adds one to the part
\* counter, raises last_flush_position by the number of bytes of the part's
\* body and leaves the buffer empty; and last_flush_position (0 while
\* unset) is always the total size of the uploaded parts.
C27_FlushBookkeeping ==
    [][/\ UploadsPart
          => LET n == Len(handle.parts)
                 number == IF n = 0 THEN 1 ELSE handle.parts[n].PartNumber + 1
             IN  /\ Len(handle'.parts) = n + 1
                 /\ SubSeq(handle'.parts, 1, n) = handle.parts
                 /\ handle'.parts[n + 1].PartNumber = number
                 /\ handle'.partNo = handle.partNo + 1
                 /\ LastFlushOr0(handle') =
                        LastFlushOr0(handle) + Len(s3'.uploads[number])
                 /\ handle'.buffer = <<>>
       /\ LastFlushOr0(handle') = Len(UploadedBodies(handle', s3'))]_vars

\* A seek(offset, whence) call on a writable handle.
SeekOfWritable(whence) ==
    /\ nops' = nops + 1
    /\ lastOp'.op = "seek"
    /\ lastOp'.whence = whence
    /\ handle.writable

\* C28: on a writable handle with an uploaded part, seek(offset, SEEK_CUR)
\* raises OSError exactly when the current position plus offset is below
\* last_flush_position, and returns otherwise.
C28_RelativeSeekBoundary ==
    [][(SeekOfWritable(SEEK_CUR) /\ handle.parts # <<>>)
       => LET target == handle.position + lastOp'.arg
          IN  /\ lastOp'.raised = "OSError" <=> target < handle.last_flush_position
              /\ target >= handle.last_flush_position => lastOp'.raised = "none"]_vars

\* C29 as stated: seek(offset, SEEK_END) on a writable handle fails in
\* every state, before and after the first part was uploaded, and leaves
\* the position unchanged.
C29_SeekEndAlwaysFails ==
    [][SeekOfWritable(SEEK_END)
       => /\ lastOp'.raised # "none"
          /\ handle'.position = handle.position]_vars

\* C29 amended: once a part has been uploaded, seek(offset, SEEK_END) on a
\* writable handle raises OSError and leaves the handle as it was; before
\* that it returns and moves the position to the end of the buffered bytes
\* plus offset, not below 0.
C29_SeekEndFailsAfterUpload ==
    [][SeekOfWritable(SEEK_END)
       => IF handle.last_flush_position # None
          THEN /\ lastOp'.raised = "OSError"
               /\ handle' = handle
          ELSE /\ lastOp'.raised = "none"
               /\ handle'.position = Max(0, Len(handle.buffer) + lastOp'.arg)
               /\ lastOp'.ret = handle'.position
               /\ handle'.buffer = handle.buffer]_vars

\* C29 witness: a part has been uploaded, more bytes are buffered, and a
\* seek relative to the end was refused.
C29_Witness ==
    /\ lastOp.op = "seek"
    /\ lastOp.whence = SEEK_END
    /\ lastOp.raised = "OSError"
    /\ handle.writable
    /\ handle.parts # <<>>
    /\ handle.buffer # <<>>

\* A read-only handle's read(size) that returned, seen in the step it is
\* made.
ReadOfReader ==
    /\ nops' = nops + 1
    /\ lastOp'.op = "read"
    /\ lastOp'.raised = "none"
    /\ handle.mode = "r"

\* The bytes of the stored object in the range a read(size) at position
\* first asks for.
RangeFrom(first, size) ==
    SubSeq(s3.object.body, first + 1,
           IF size > 0 THEN Min(first + size, Len(s3.object.body))
           ELSE Len(s3.object.body))

C38_PlusReadAdvances ==
    [][(/\ nops' = nops + 1
        /\ lastOp'.op = "read"
        /\ lastOp'.raised = "none"
        /\ HasPlus(handle.mode)
        /\ handle.closed # "CLOSED")
       => /\ handle'.position = handle.position + Len(lastOp'.ret)
          /\ lastOp'.ret = BytesIO_read(handle.buffer, handle.position, lastOp'.arg)]_vars

\* A part has been uploaded: the flush boundary is set.
Flushed(h) == h.writable /\ h.last_flush_position # None

\* The absolute offset a seek(offset, whence) asks for; the stream stands
\* bufpos bytes past the flush boundary.
SeekTarget(h, offset, whence) ==
    IF whence = SEEK_SET THEN offset
    ELSE h.last_flush_position + h.bufpos + offset

\* Once a part is uploaded, last_flush_position never decreases.
FlushBoundaryNonDecreasing ==
    [][Flushed(handle) => /\ Flushed(handle')
                          /\ handle'.last_flush_position >= handle.last_flush_position]_vars

\* No write, writelines, seek or truncate changes an uploaded part.
UploadedPartsKept ==
    [][(nops' = nops + 1 /\ lastOp'.op \in {"write", "writelines", "seek", "truncate"})
       => s3'.uploads = s3.uploads]_vars

\* A seek that asks for an offset below the flush boundary does not succeed.
SeekBelowBoundaryRefused ==
    [][(/\ nops' = nops + 1
        /\ lastOp'.op = "seek"
        /\ lastOp'.whence \in {SEEK_SET, SEEK_CUR}
        /\ Flushed(handle)
        /\ SeekTarget(handle, lastOp'.arg, lastOp'.whence) < handle.last_flush_position)
       => lastOp'.raised # "none" /\ handle' = handle]_vars

\* C32: after the first uploaded part last_flush_position never decreases,
\* no write or seek changes the bytes already uploaded, and no seek that
\* asks for an absolute offset strictly below last_flush_position succeeds.
C32_FlushBoundaryHolds ==
    /\ FlushBoundaryNonDecreasing
    /\ UploadedPartsKept
    /\ SeekBelowBoundaryRefused

\* CloseStatus: OPEN, CLOSING, CLOSED in their order.
CloseStatus == <<"OPEN", "CLOSING", "CLOSED">>

StatusRank(status) == CHOOSE i \in 1..Len(CloseStatus) : CloseStatus[i] = status

HasStatus(h) == \E i \in 1..Len(CloseStatus) : CloseStatus[i] = h.closed

\* C39: from construction on the close status is one of OPEN, CLOSING and
\* CLOSED; no call moves it backwards (entering the scope again included);
\* and it becomes CLOSING only in a close() of a handle that has uploaded
\* at least one part.
C39_CloseStatusForwardOnly ==
    /\ []HasStatus(handle)
    /\ [][/\ (HasStatus(handle) /\ HasStatus(handle'))
             => StatusRank(handle'.closed) >= StatusRank(handle.closed)
          /\ (handle'.closed = "CLOSING" /\ handle.closed # "CLOSING")
             => IsCloseOp(lastOp'.op) /\ handle.parts # <<>>]_vars

\* The status never moves backwards once it is set.
StatusForwardOnly ==
    [][(HasStatus(handle) /\ HasStatus(handle'))
       => StatusRank(handle'.closed) >= StatusRank(handle.closed)]_vars

\* The status becomes CLOSING only in close() of a handle with parts.
ClosingOnlyInMultipartClose ==
    [][(handle'.closed = "CLOSING" /\ handle.closed # "CLOSING")
       => IsCloseOp(lastOp'.op) /\ handle.parts # <<>>]_vars

\* C40: when close() of a writable handle has returned, the multipart
\* upload session the handle created is completed or aborted, not open.
C40_NoUploadLeftOpen ==
    (/\ IsCloseOp(lastOp.op)
     /\ lastOp.raised = "none"
     /\ handle.writable
     /\ s3.calls.create_multipart_upload > 0)
    => s3.upload \in {"completed", "aborted"}

\* The session is completed whenever the closed handle had uploaded a part.
MultipartCloseCompletes ==
    (/\ IsCloseOp(lastOp.op)
     /\ lastOp.raised = "none"
     /\ handle.writable
     /\ handle.parts # <<>>)
    => s3.upload = "completed"

(***************************************************************************)
(* Properties of the sequential writer, checked under SeqSpec.             *)
(***************************************************************************)
\* Every block handed to write() so far, in the order written.
AllWritten == [i \in 1..written |-> i]

\* A close() (direct or on leaving the scope) that returned.
CloseReturned == IsCloseOp(lastOp.op) /\ lastOp.raised = "none"

C36_TellIsBytesWritten ==
    (handle.mode = "w" /\ closeCalls = 0) => handle.position = written

\* An upload_part request was made in this step and raised.
UploadFailed ==
    /\ nops' = nops + 1
    /\ s3.partFault
    /\ s3'.calls.upload_part = s3.calls.upload_part + 1

\* An upload_part request was made in this step and was answered.
UploadDone ==
    /\ nops' = nops + 1
    /\ ~s3.partFault
    /\ s3'.calls.upload_part = s3.calls.upload_part + 1
    /\ s3.upload = "open"

\* C37: a flush() (called directly or by close()) whose upload_part raised
\* leaves the parts list, the part counter, last_flush_position and the
\* buffer as they were; every upload that is answered carries the whole
\* buffer under the current part number, so the flush or close after the
\* failure re-sends those bytes under that number; and the object a later
\* close() stores holds every written byte.
C37_FailedUploadKeepsState ==
    /\ [][UploadFailed
          => /\ lastOp'.raised = "ConnectionError"
             /\ handle'.parts = handle.parts
             /\ handle'.partNo = handle.partNo
             /\ handle'.last_flush_position = handle.last_flush_position
             /\ handle'.buffer = handle.buffer
             /\ handle'.bufpos = handle.bufpos]_vars
    /\ [][UploadDone
          => /\ handle.partNo \in DOMAIN s3'.uploads
             /\ s3'.uploads[handle.partNo] = handle.buffer
             /\ handle.partNo \notin DOMAIN s3.uploads]_vars
    /\ [](handle.mode = "w" /\ CloseReturned => s3.object.body = AllWritten)

\* C37 witness: an upload_part raised, the handle was closed later, and the
\* object holds the three blocks written, one part of them uploaded twice
\* over: once failing, once answered.
C37_Witness ==
    /\ handle.mode = "w"
    /\ CloseReturned
    /\ lastOp.after
    /\ written = 3
    /\ s3.upload = "completed"
    /\ s3.calls.upload_part > Len(handle.parts)
    /\ s3.object.body = AllWritten

(***************************************************************************)
(* transfer_from of HttpResourcePath and S3ResourcePath.  One call runs    *)
(* from "mode" to "done"; each action is one statement of the method, at   *)
(* most one request long.  A request to the source or destination either   *)
(* takes effect or fails without effect; existence probes answer truly.    *)
(***************************************************************************)
MaxRetries == 1

IsS3(a) == a \in S3Addrs

IsHttp(a) == a \in HttpAddrs

\* ResourcePath.transferModes and ResourcePath.transferDefault, inherited
\* by both classes.
transferModes == {"copy", "auto", "move"}

transferDefault == "copy"

\* Values a caller passes as transfer: the supported ones and one that
\* only other schemes support.
TransferArgs == transferModes \cup {"hardlink"}

Req(method, a) == [m |-> method, a |-> a]

\* exists(): a HEAD request, or head_object through s3CheckFileExists.
ExistsReq(a) == Req(IF IsHttp(a) THEN "HEAD" ELSE "head_object", a)

Exists(a) == store[a] # Absent

\* The exceptions the backoff decorators retry (retryable_io_errors).
Retryable(exc) == exc = "TransientError"

ModeRefused_inverted(transfer) == transfer \in transferModes

\* if transfer not in self.transferModes
ModeRefused(transfer) == transfer \notin transferModes

DestRefused_flagInverted(overwrite, exists) == exists /\ overwrite

\* if self.exists() and not overwrite / if not overwrite and self.exists()
DestRefused(overwrite, exists) == exists /\ ~overwrite

SameType_always(dst, src) == TRUE

\* if isinstance(src, type(self))
SameType(dst, src) == IsS3(dst) = IsS3(src)

ExplicitMove_never(transfer) == FALSE

\* if transfer == "move"
ExplicitMove(transfer) == transfer = "move"

SameUri_never(dst, src) == FALSE

\* if self == src
SameUri(dst, src) == dst = src

TStep(pc, exc, result, rs, st, tmp) ==
    /\ tpc' = pc
    /\ texc' = exc
    /\ tresult' = result
    /\ reqs' = reqs \o rs
    /\ store' = st
    /\ tmpfile' = tmp
    /\ UNCHANGED <<env, tcall, store0, hvars, svars, wvars, avars, fvars>>

\* Go on with the next statement.
Goto(pc, rs) == TStep(pc, "none", "none", rs, store, tmpfile)

\* transfer_from returns None.
Return(rs, st) == TStep("done", "none", "ok", rs, st, Absent)

\* HttpResourcePath.transfer_from raises: nothing wraps it.
HttpRaise(exc, rs) == TStep("done", "none", exc, rs, store, Absent)

\* S3ResourcePath.transfer_from raises: into its backoff decorator.
S3Raise(exc, rs) == TStep("raised", exc, "none", rs, store, Absent)

\* The source's own backoff decorator (S3ResourcePath._as_local, remove)
\* may call the method again after a retryable error.
InnerRetry == env.backoff /\ inner < MaxRetries

TransferCall ==
    /\ tpc = "idle"
    /\ \E dst \in Addrs, src \in Addrs, transfer \in TransferArgs, overwrite \in BOOLEAN :
          /\ tcall' = [dst |-> dst, src |-> src, transfer |-> transfer,
                       overwrite |-> overwrite]
          /\ tmode' = transfer
    /\ tpc' = "mode"
    /\ store0' = store
    /\ UNCHANGED <<store, env, texc, tresult, reqs, tmpfile, retries, inner,
                   uploaded, webdav, rmexc, hvars, svars, wvars, avars, fvars>>

(******************** HttpResourcePath.transfer_from ***********************)
Http_CheckMode ==
    /\ tpc = "mode" /\ IsHttp(tcall.dst)
    /\ IF ModeRefused(tcall.transfer)
       THEN HttpRaise("ValueError", <<>>)
       ELSE Goto("debug", <<>>)
    /\ UNCHANGED <<tmode, retries, inner, uploaded, webdav, rmexc>>

Http_DebugLog ==
    /\ tpc = "debug" /\ IsHttp(tcall.dst)
    /\ IF env.debug
       THEN Goto("same", <<ExistsReq(tcall.src), ExistsReq(tcall.dst)>>)
       ELSE Goto("same", <<>>)
    /\ UNCHANGED <<tmode, retries, inner, uploaded, webdav, rmexc>>

Http_SameUri ==
    /\ tpc = "same" /\ IsHttp(tcall.dst)
    /\ IF SameUri(tcall.dst, tcall.src)
       THEN Return(<<>>, store)
       ELSE Goto("exists", <<>>)
    /\ UNCHANGED <<tmode, retries, inner, uploaded, webdav, rmexc>>

Http_DestExists ==
    /\ tpc = "exists" /\ IsHttp(tcall.dst)
    /\ IF DestRefused(tcall.overwrite, Exists(tcall.dst))
       THEN HttpRaise("FileExistsError", <<ExistsReq(tcall.dst)>>)
       ELSE Goto("route", <<ExistsReq(tcall.dst)>>)
    /\ UNCHANGED <<tmode, retries, inner, uploaded, webdav, rmexc>>

Http_Route ==
    /\ tpc = "route" /\ IsHttp(tcall.dst)
    /\ tmode' = IF tcall.transfer = "auto" THEN transferDefault ELSE tcall.transfer
    /\ Goto(IF SameType(tcall.dst, tcall.src) THEN "webdav" ELSE "download", <<>>)
    /\ UNCHANGED <<retries, inner, uploaded, webdav, rmexc>>

\* self.is_webdav_endpoint: one OPTIONS request to the server's root, its
\* answer cached.
Http_Webdav ==
    /\ tpc = "webdav" /\ IsHttp(tcall.dst)
    /\ LET probe  == webdav = "unknown"
           answer == IF probe THEN (IF env.dav THEN "yes" ELSE "no") ELSE webdav
           rs     == IF probe THEN <<Req("OPTIONS", "https://server/")>> ELSE <<>>
       IN  /\ webdav' = answer
           /\ IF answer = "no"
              THEN HttpRaise("NotImplementedError", rs)
              ELSE Goto("direct", rs)
    /\ UNCHANGED <<tmode, retries, inner, uploaded, rmexc>>

\* COPY or MOVE with a Destination header, executed by the server.
Http_Direct ==
    /\ tpc = "direct" /\ IsHttp(tcall.dst)
    /\ LET method == IF tmode = "move" THEN "MOVE" ELSE "COPY"
           rs     == <<Req(method, tcall.src)>>
       IN  \/ /\ Exists(tcall.src)
              /\ uploaded' = TRUE
              /\ Return(rs, [store EXCEPT ![tcall.dst] = store[tcall.src],
                                          ![tcall.src] = IF method = "MOVE"
                                                         THEN Absent ELSE @])
           \/ /\ uploaded' = uploaded
              /\ HttpRaise("ValueError", rs)
    /\ UNCHANGED <<tmode, retries, inner, webdav, rmexc>>

\* src.as_local() for an S3 source: S3ResourcePath._as_local
Http_Download ==
    /\ tpc = "download" /\ IsHttp(tcall.dst)
    /\ LET rs == <<Req("download_fileobj", tcall.src)>>
       IN  \/ /\ Exists(tcall.src)
              /\ TStep("put", "none", "none", rs, store, store[tcall.src])
              /\ inner' = 0
           \/ /\ ~Exists(tcall.src)
              /\ HttpRaise("ClientError", rs)
              /\ inner' = 0
           \/ /\ InnerRetry
              /\ Goto("download", rs)
              /\ inner' = inner + 1
           \/ /\ HttpRaise("TransientError", rs)
              /\ inner' = 0
    /\ UNCHANGED <<tmode, retries, uploaded, webdav, rmexc>>

\* self._do_put(data=f)
Http_Put ==
    /\ tpc = "put" /\ IsHttp(tcall.dst)
    /\ LET rs == <<Req("PUT", tcall.dst)>>
           st == [store EXCEPT ![tcall.dst] = tmpfile]
       IN  \/ /\ uploaded' = TRUE
              /\ IF ExplicitMove(tmode)
                 THEN TStep("remove", "none", "none", rs, st, Absent)
                 ELSE Return(rs, st)
           \/ /\ uploaded' = uploaded
              /\ \E exc \in {"ValueError", "RequestException"} : HttpRaise(exc, rs)
    /\ UNCHANGED <<tmode, retries, inner, webdav, rmexc>>

\* src.remove() for an S3 source: S3ResourcePath.remove
Http_Remove ==
    /\ tpc = "remove" /\ IsHttp(tcall.dst)
    /\ LET rs == <<Req("delete_object", tcall.src)>>
       IN  \/ /\ Return(rs, [store EXCEPT ![tcall.src] = Absent])
              /\ rmexc' = "none"
              /\ inner' = 0
           \/ /\ InnerRetry
              /\ Goto("remove", rs)
              /\ rmexc' = rmexc
              /\ inner' = inner + 1
           \/ /\ HttpRaise("TransientError", rs)
              /\ rmexc' = "TransientError"
              /\ inner' = 0
    /\ UNCHANGED <<tmode, retries, uploaded, webdav>>

(********************* S3ResourcePath.transfer_from ************************)
S3_CheckMode ==
    /\ tpc = "mode" /\ IsS3(tcall.dst)
    /\ IF ModeRefused(tcall.transfer)
       THEN S3Raise("ValueError", <<>>)
       ELSE Goto("debug", <<>>)
    /\ UNCHANGED <<tmode, retries, inner, uploaded, webdav, rmexc>>

S3_DebugLog ==
    /\ tpc = "debug" /\ IsS3(tcall.dst)
    /\ IF env.debug
       THEN Goto("same", <<ExistsReq(tcall.src), ExistsReq(tcall.dst)>>)
       ELSE Goto("same", <<>>)
    /\ UNCHANGED <<tmode, retries, inner, uploaded, webdav, rmexc>>

S3_SameUri ==
    /\ tpc = "same" /\ IsS3(tcall.dst)
    /\ IF SameUri(tcall.dst, tcall.src)
       THEN Return(<<>>, store)
       ELSE Goto("exists", <<>>)
    /\ UNCHANGED <<tmode, retries, inner, uploaded, webdav, rmexc>>

\* "not overwrite and self.exists()": no probe when overwrite is set.
S3_DestExists ==
    /\ tpc = "exists" /\ IsS3(tcall.dst)
    /\ LET rs == IF tcall.overwrite THEN <<>> ELSE <<ExistsReq(tcall.dst)>>
       IN  IF DestRefused(tcall.overwrite, Exists(tcall.dst))
           THEN S3Raise("FileExistsError", rs)
           ELSE Goto("route", rs)
    /\ UNCHANGED <<tmode, retries, inner, uploaded, webdav, rmexc>>

S3_Route ==
    /\ tpc = "route" /\ IsS3(tcall.dst)
    /\ tmode' = IF tcall.transfer = "auto" THEN transferDefault ELSE tcall.transfer
    /\ Goto(IF SameType(tcall.dst, tcall.src) THEN "direct" ELSE "download", <<>>)
    /\ UNCHANGED <<retries, inner, uploaded, webdav, rmexc>>

\* self.client.copy_object
S3_Copy ==
    /\ tpc = "direct" /\ IsS3(tcall.dst)
    /\ LET rs == <<Req("copy_object", tcall.src)>>
           st == [store EXCEPT ![tcall.dst] = store[tcall.src]]
       IN  \/ /\ Exists(tcall.src)
              /\ uploaded' = TRUE
              /\ IF ExplicitMove(tmode)
                 THEN TStep("remove", "none", "none", rs, st, tmpfile)
                 ELSE Return(rs, st)
           \/ /\ ~Exists(tcall.src)
              /\ uploaded' = uploaded
              /\ S3Raise("FileNotFoundError", rs)
           \/ /\ uploaded' = uploaded
              /\ S3Raise("TransientError", rs)
    /\ UNCHANGED <<tmode, retries, inner, webdav, rmexc>>

\* src.as_local() for an HTTP source: HttpResourcePath._as_local
S3_Download ==
    /\ tpc = "download" /\ IsS3(tcall.dst)
    /\ LET rs == <<Req("GET", tcall.src)>>
       IN  \/ /\ Exists(tcall.src)
              /\ TStep("put", "none", "none", rs, store, store[tcall.src])
           \/ \E exc \in {"FileNotFoundError", "RequestException"} : S3Raise(exc, rs)
    /\ UNCHANGED <<tmode, retries, inner, uploaded, webdav, rmexc>>

\* put_object followed by the removal of the source even when it failed.
S3_Put_removeAnyway ==
    /\ tpc = "put" /\ IsS3(tcall.dst)
    /\ LET rs == <<Req("put_object", tcall.dst)>>
           st == [store EXCEPT ![tcall.dst] = tmpfile]
       IN  \/ /\ uploaded' = TRUE
              /\ IF ExplicitMove(tmode)
                 THEN TStep("remove", "none", "none", rs, st, Absent)
                 ELSE Return(rs, st)
           \/ /\ uploaded' = uploaded
              /\ IF ExplicitMove(tmode)
                 THEN TStep("remove", "none", "none", rs, store, Absent)
                 ELSE S3Raise("TransientError", rs)
    /\ UNCHANGED <<tmode, retries, inner, webdav, rmexc>>

\* self.client.put_object(Body=fh)
S3_Put ==
    /\ tpc = "put" /\ IsS3(tcall.dst)
    /\ LET rs == <<Req("put_object", tcall.dst)>>
           st == [store EXCEPT ![tcall.dst] = tmpfile]
       IN  \/ /\ uploaded' = TRUE
              /\ IF ExplicitMove(tmode)
                 THEN TStep("remove", "none", "none", rs, st, Absent)
                 ELSE Return(rs, st)
           \/ /\ uploaded' = uploaded
              /\ S3Raise("TransientError", rs)
    /\ UNCHANGED <<tmode, retries, inner, webdav, rmexc>>

\* src.remove(): S3ResourcePath.remove under its own backoff decorator, or
\* HttpResourcePath.remove.
S3_Remove ==
    /\ tpc = "remove" /\ IsS3(tcall.dst)
    /\ \/ /\ IsS3(tcall.src)
          /\ LET rs == <<Req("delete_object", tcall.src)>>
             IN  \/ /\ Return(rs, [store EXCEPT ![tcall.src] = Absent])
                    /\ rmexc' = "none"
                    /\ inner' = 0
                 \/ /\ InnerRetry
                    /\ Goto("remove", rs)
                    /\ rmexc' = rmexc
                    /\ inner' = inner + 1
                 \/ /\ S3Raise("TransientError", rs)
                    /\ rmexc' = "TransientError"
                    /\ inner' = 0
       \/ /\ IsHttp(tcall.src)
          /\ inner' = inner
          /\ LET rs == <<Req("DELETE", tcall.src)>>
             IN  \/ /\ Exists(tcall.src)
                    /\ Return(rs, [store EXCEPT ![tcall.src] = Absent])
                    /\ rmexc' = "none"
                 \/ \E exc \in {"FileNotFoundError", "RequestException"} :
                       /\ S3Raise(exc, rs)
                       /\ rmexc' = exc
    /\ UNCHANGED <<tmode, retries, uploaded, webdav>>

\* backoff.on_exception(backoff.expo, all_retryable_errors, max_time=60)
\* around transfer_from: a retryable exception calls the method again with
\* the same arguments until the time is spent, then it is raised.
S3_Backoff ==
    /\ tpc = "raised"
    /\ \/ /\ Retryable(texc) /\ env.backoff /\ retries < MaxRetries
          /\ retries' = retries + 1
          /\ tmode' = tcall.transfer
          /\ Goto("mode", <<>>)
       \/ /\ TStep("done", "none", texc, <<>>, store, Absent)
          /\ UNCHANGED <<retries, tmode>>
    /\ UNCHANGED <<inner, uploaded, webdav, rmexc>>

HandleIdle ==
    /\ handle = NewHandle("r")
    /\ s3 = [object |-> [exists |-> FALSE, body |-> <<>>], upload |-> "none",
             uploads |-> <<>>, calls |-> NoCalls, partFault |-> FALSE]
    /\ lastOp = [op |-> "init", arg |-> 0, whence |-> 0, raised |-> "none", ret |-> 0,
                 after |-> FALSE]
    /\ written = 0
    /\ inScope = FALSE
    /\ nops = 0
    /\ closeCalls = 0

TransferInit ==
    /\ HandleIdle
    /\ AuthIdle
    /\ FileIdle
    /\ SessionIdle
    /\ WebIdle
    /\ store \in {f \in [Addrs -> Addrs \cup {Absent}] :
                    \A a \in Addrs : f[a] \in {a, Absent}}
    /\ store0 = store
    /\ env \in [debug : BOOLEAN, backoff : BOOLEAN, dav : BOOLEAN]
    /\ tcall = NoCall
    /\ tmode = "none"
    /\ tpc = "idle"
    /\ texc = "none"
    /\ tresult = "none"
    /\ reqs = <<>>
    /\ tmpfile = Absent
    /\ retries = 0
    /\ inner = 0
    /\ uploaded = FALSE
    /\ webdav = "unknown"
    /\ rmexc = "none"

TransferNext ==
    \/ TransferCall
    \/ Http_CheckMode \/ Http_DebugLog \/ Http_SameUri \/ Http_DestExists
    \/ Http_Route \/ Http_Webdav \/ Http_Direct \/ Http_Download
    \/ Http_Put \/ Http_Remove
    \/ S3_CheckMode \/ S3_DebugLog \/ S3_SameUri \/ S3_DestExists
    \/ S3_Route \/ S3_Copy \/ S3_Download \/ S3_Put \/ S3_Remove
    \/ S3_Backoff

TransferSpec == TransferInit /\ [][TransferNext]_vars

(***************************************************************************)
(* Properties of transfer_from, checked under TransferSpec.                *)
(***************************************************************************)
Returned == tpc = "done" /\ tresult = "ok"

CrossBackend == tcall.dst \in Addrs /\ tcall.src \in Addrs /\ IsS3(tcall.dst) # IsS3(tcall.src)

ExistenceChecks == {"HEAD", "head_object"}

StateChanging == {"PUT", "COPY", "MOVE", "DELETE", "put_object", "copy_object", "delete_object"}

Issued(methods) == \E i \in 1..Len(reqs) : reqs[i].m \in methods

\* C6: a transfer_from(src, "move", overwrite=True) between different
\* backend types that returns leaves in the destination the bytes the source
\* held when the call started, and the source no longer exists.
C6_MoveAcrossBackends ==
    (Returned /\ tcall.transfer = "move" /\ tcall.overwrite /\ CrossBackend)
        => /\ store0[tcall.src] # Absent
           /\ store[tcall.dst] = store0[tcall.src]
           /\ store[tcall.src] = Absent

C6_Witness ==
    /\ Returned /\ tcall.transfer = "move" /\ tcall.overwrite /\ CrossBackend
    /\ store0[tcall.dst] # Absent
    /\ store[tcall.dst] = store0[tcall.src]
    /\ Issued({"DELETE", "delete_object"})

\* C7: when a move has written the destination and the removal of the
\* source then raised, the call ends with that removal's exception and the
\* destination holds the bytes the source held.
C7_DeletionFailureSurfaces ==
    (tpc = "done" /\ tcall.transfer = "move" /\ uploaded /\ rmexc # "none")
        => /\ tresult = rmexc
           /\ store[tcall.dst] = store0[tcall.src]

\* C8: with overwrite=False, a supported mode, src # dst and an existing
\* destination the call ends with FileExistsError, source and destination are
\* as they were, and every request issued is an existence check.
C8_ExistingDestinationRefused ==
    (/\ tpc = "done" /\ ~tcall.overwrite /\ tcall.transfer \in transferModes
     /\ tcall.src # tcall.dst /\ store0[tcall.dst] # Absent)
        => /\ tresult = "FileExistsError"
           /\ store = store0
           /\ \A i \in 1..Len(reqs) : reqs[i].m \in ExistenceChecks

C8_Witness ==
    /\ tpc = "done" /\ ~tcall.overwrite /\ tcall.transfer = "move"
    /\ tcall.src # tcall.dst /\ store0[tcall.dst] # Absent
    /\ store0[tcall.src] # Absent
    /\ tresult = "FileExistsError"
    /\ \E i \in 1..Len(reqs) : reqs[i] = ExistsReq(tcall.src)

\* C9 as stated: for every address, every value of mode and of overwrite,
\* transfer_from with src = dst returns and issues no state-changing request.
C9_SelfTransferAnyMode ==
    (tpc = "done" /\ tcall.src = tcall.dst)
        => Returned /\ ~Issued(StateChanging)

\* C9 amended: for every address, every supported mode and every value of
\* overwrite, transfer_from with src = dst returns, issues no state-changing
\* request and leaves the address as it was, whether or not it exists.
C9_SelfTransferSupportedMode ==
    (tpc = "done" /\ tcall.src = tcall.dst /\ tcall.transfer \in transferModes)
        => /\ Returned
           /\ ~Issued(StateChanging)
           /\ store = store0

C9_Witness ==
    /\ Returned /\ tcall.src = tcall.dst /\ tcall.transfer = "move"
    /\ ~tcall.overwrite
    /\ store0[tcall.dst] # Absent
    /\ store = store0

\* C10: a call whose mode the destination does not support issues no
\* request at all and ends with ValueError, on both backends.
C10_UnsupportedModeFailsFast ==
    (tpc # "idle" /\ tcall.transfer \notin transferModes)
        => /\ reqs = <<>>
           /\ tpc = "done" => tresult = "ValueError"

C10_Witness ==
    /\ tpc = "done" /\ tcall.transfer \notin transferModes
    /\ IsS3(tcall.dst) /\ tcall.src # tcall.dst
    /\ env.debug /\ env.backoff
    /\ tresult = "ValueError" /\ reqs = <<>>

Downloads == {"GET", "download_fileobj"}

Uploads == {"PUT", "put_object"}

ServerSide == {"COPY", "MOVE", "copy_object"}

\* The call got as far as choosing how to transfer: supported mode, two
\* different addresses, destination not refused.
ReachedTransfer ==
    /\ tpc = "done"
    /\ tcall.transfer \in transferModes
    /\ tcall.src # tcall.dst
    /\ ~(store0[tcall.dst] # Absent /\ ~tcall.overwrite)

\* No server-side primitive for the pair: different backend types, or two
\* HTTP addresses on an endpoint without WebDAV.
NoPrimitive ==
    \/ CrossBackend
    \/ IsHttp(tcall.dst) /\ IsHttp(tcall.src) /\ ~env.dav

\* C11 as stated: every transfer for whose endpoints no server-side
\* primitive is available downloads the source to a local file (and, the
\* download done, uploads that file to the destination).
C11_FallbackWhenNoPrimitive ==
    (ReachedTransfer /\ NoPrimitive)
        => /\ Issued(Downloads)
           /\ Returned => store[tcall.dst] = store0[tcall.src]

\* C11 amended: every transfer between different backend types downloads the
\* source to a local file and, when it returns, has uploaded that file to the
\* destination with no server-side copy or move; between two HTTP addresses
\* on an endpoint without WebDAV the call ends with NotImplementedError and
\* transfers nothing.
C11_FallbackAcrossBackends ==
    /\ (ReachedTransfer /\ CrossBackend)
          => /\ Issued(Downloads)
             /\ ~Issued(ServerSide)
             /\ Returned => /\ Issued(Uploads)
                            /\ store[tcall.dst] = store0[tcall.src]
    /\ (ReachedTransfer /\ IsHttp(tcall.dst) /\ IsHttp(tcall.src) /\ ~env.dav)
          => /\ tresult = "NotImplementedError"
             /\ ~Issued(Downloads \cup Uploads \cup ServerSide)
             /\ store = store0

C11_Witness ==
    /\ ReachedTransfer /\ CrossBackend /\ Returned
    /\ tcall.transfer = "auto"
    /\ IsHttp(tcall.dst)
    /\ reqs[Len(reqs)] = Req("PUT", tcall.dst)
    /\ store[tcall.dst] = store0[tcall.src]

\* The requests that delete an address.
Deletes == {"DELETE", "delete_object"}

\* The request sent in this step, if it is one of methods.
Sends(methods) ==
    /\ Len(reqs') = Len(reqs) + 1
    /\ reqs'[Len(reqs')].m \in methods

\* C34: in a move the source is deleted only after the copy or upload to
\* the destination succeeded.  A delete request goes to the source and is
\* sent only from the removal step; that step is entered only by a PUT,
\* put_object or copy_object that succeeded and left the source's content
\* at the destination; a failing download, upload or copy sends no delete;
\* and whenever the source disappears the destination holds its content.
C34_DeleteOnlyAfterUpload ==
    /\ [](Issued(Deletes) => uploaded /\ ExplicitMove(tmode))
    /\ [][Sends(Deletes)
          => tpc = "remove" /\ reqs'[Len(reqs')].a = tcall.src]_vars
    /\ [][(tpc' = "remove" /\ tpc # "remove")
          => /\ tpc \in {"put", "direct"}
             /\ Sends(Uploads \cup ServerSide)
             /\ texc' = "none"
             /\ store'[tcall.dst] = store0[tcall.src]
             /\ store0[tcall.src] # Absent]_vars
    /\ [][(tcall.src \in Addrs /\ store[tcall.src] # Absent /\ store'[tcall.src] = Absent)
          => store'[tcall.dst] = store0[tcall.src]]_vars

\* C34 witness: a move between the backends whose upload failed: the call
\* ended with the error, no delete was sent and the source is still there.
C34_Witness ==
    /\ tpc = "done"
    /\ CrossBackend
    /\ tcall.transfer = "move"
    /\ tresult \notin {"ok", "none"}
    /\ Issued(Downloads) /\ Issued(Uploads)
    /\ ~uploaded
    /\ ~Issued(Deletes)
    /\ store[tcall.src] = store0[tcall.src]
    /\ store[tcall.src] # Absent

(***************************************************************************)
(* HTTP sessions: _get_http_session builds a requests.Session from the     *)
(* environment; the properties session and upload_session cache one each   *)
(* on the class.                                                           *)
(***************************************************************************)
S_IRWXU == 448

S_IRWXG == 56

S_IRWXO == 7

RECURSIVE BitAnd(_, _)
\* mode & mask
BitAnd(a, b) ==
    IF a = 0 \/ b = 0 THEN 0
    ELSE (a % 2) * (b % 2) + 2 * BitAnd(a \div 2, b \div 2)

\* Permission bits tried for a credential file: none, owner only (r, rw,
\* rwx), owner read plus each single group or other bit, group or other
\* alone, and the usual 0644 and 0777.
FileModes == {0, 4, 32, 256, 384, 448, 420, 511} \cup {256 + b : b \in {1, 2, 4, 8, 16, 32}}

TokenSettings == {"", "ABCDE", "/token"}

CertSettings == {"", "/cert"}

KeySettings == {"", "/key", "/nokey"}

Environments ==
    [token : TokenSettings, cert : CertSettings, key : KeySettings,
     cabundle : {"", "/bundle"}, tokenmode : FileModes, keymode : FileModes,
     expect : {FALSE}]

\* os.path.isfile
isfile(path) == path \in {"/token", "/cert", "/key", "/bundle"}

\* stat.S_IMODE(os.stat(filepath).st_mode)
S_IMODE(e, path) == IF path = "/token" THEN e.tokenmode ELSE e.keymode

is_protected_ownerOnly(e, filepath) ==
    /\ isfile(filepath)
    /\ BitAnd(S_IMODE(e, filepath), S_IRWXU) # 0

\* _is_protected(filepath)
is_protected(e, filepath) ==
    IF ~isfile(filepath) THEN FALSE
    ELSE LET mode == S_IMODE(e, filepath)
             owner_accessible == BitAnd(mode, S_IRWXU)
             group_accessible == BitAnd(mode, S_IRWXG)
             other_accessible == BitAnd(mode, S_IRWXO)
         IN  owner_accessible # 0 /\ group_accessible = 0 /\ other_accessible = 0

NoAuth == [kind |-> "none", token |-> "", path |-> ""]

\* BearerTokenAuth._refresh, first call: the file's text without its final
\* newline.
TokenFileText(path) == "ABCDE"

\* BearerTokenAuth.__init__(token): what it raises, and the object.
BearerTokenAuth(e, token) ==
    IF token = "" THEN [raised |-> "none", auth |-> [kind |-> "bearer", token |-> "", path |-> ""]]
    ELSE IF isfile(token)
         THEN IF ~is_protected(e, token)
              THEN [raised |-> "PermissionError", auth |-> NoAuth]
              ELSE [raised |-> "none",
                    auth |-> [kind |-> "bearer", token |-> TokenFileText(token), path |-> token]]
         ELSE [raised |-> "none", auth |-> [kind |-> "bearer", token |-> token, path |-> ""]]

\* requests.Session() with its adapters mounted for root_uri and its
\* verify set.
NewSession(e, root_uri) ==
    [root |-> root_uri, verify |-> IF e.cabundle # "" THEN e.cabundle ELSE "True",
     auth |-> NoAuth, cert |-> <<>>]

UseToken_afterCert(e) == e.token # "" /\ ~(e.cert # "" /\ e.key # "")

\* if token := os.getenv("LSST_HTTP_AUTH_BEARER_TOKEN")
UseToken(e) == e.token # ""

OnlyOneOf_ignored(cert, key) == FALSE

\* "if client_cert: raise" and "if client_key: raise", reached when the two
\* are not both set.
OnlyOneOf(cert, key) == cert # "" \/ key # ""

\* _get_http_session(path): what it raises, and the session it returns.
get_http_session(e, root_uri) ==
    LET session == NewSession(e, root_uri)
    IN  IF UseToken(e)
        THEN LET a == BearerTokenAuth(e, e.token)
             IN  IF a.raised # "none"
                 THEN [raised |-> a.raised, session |-> session]
                 ELSE [raised |-> "none", session |-> [session EXCEPT !.auth = a.auth]]
        ELSE IF e.cert # "" /\ e.key # ""
        THEN IF ~is_protected(e, e.key)
             THEN [raised |-> "PermissionError", session |-> session]
             ELSE [raised |-> "none",
                   session |-> [session EXCEPT !.cert = <<e.cert, e.key>>]]
        ELSE IF OnlyOneOf(e.cert, e.key)
        THEN [raised |-> "ValueError", session |-> session]
        ELSE [raised |-> "none", session |-> session]

Cached_never(attr) == FALSE

\* if cls._session: / if cls._upload_session:
Cached(attr) == attr # 0

\* The property named prop, read on an instance of HttpResourcePath, as one
\* step: the cached object, or a new one that is cached and returned.
GetProperty(prop, a) ==
    IF Cached(cls[prop])
    THEN /\ lastGet' = [prop |-> prop, raised |-> "none", ret |-> cls[prop], built |-> FALSE]
         /\ handed' = [handed EXCEPT ![prop] = @ \cup {cls[prop]}]
         /\ UNCHANGED <<sessions, cls>>
    ELSE LET r  == get_http_session(osenv, a.root)
             id == Len(sessions) + 1
         IN  IF r.raised # "none"
             THEN /\ lastGet' = [prop |-> prop, raised |-> r.raised, ret |-> 0, built |-> FALSE]
                  /\ UNCHANGED <<sessions, cls, handed>>
             ELSE /\ sessions' = Append(sessions, [s |-> r.session, by |-> prop])
                  /\ cls' = [cls EXCEPT ![prop] = id]
                  /\ lastGet' = [prop |-> prop, raised |-> "none", ret |-> id, built |-> TRUE]
                  /\ handed' = [handed EXCEPT ![prop] = @ \cup {id}]

\* HttpResourcePath.session, on any instance
GetSession ==
    /\ \E a \in HttpPaths : GetProperty("session", a)
    /\ UNCHANGED <<osenv, thr, hvars, tvars, wvars, avars, fvars>>

\* HttpResourcePath.upload_session, on any instance
GetUploadSession ==
    /\ \E a \in HttpPaths : GetProperty("upload_session", a)
    /\ UNCHANGED <<osenv, thr, hvars, tvars, wvars, avars, fvars>>

SessionInit ==
    /\ HandleIdle
    /\ AuthIdle
    /\ FileIdle
    /\ TransferIdle
    /\ WebIdle
    /\ osenv \in Environments
    /\ sessions = <<>>
    /\ cls = [session |-> 0, upload_session |-> 0]
    /\ handed = [session |-> {}, upload_session |-> {}]
    /\ lastGet = NoGet
    /\ thr = [t \in Threads |-> IdleThread]

SessionNext == GetSession \/ GetUploadSession

SessionSpec == SessionInit /\ [][SessionNext]_vars

(***************************************************************************)
(* Properties of the sessions, checked under SessionSpec.                  *)
(***************************************************************************)
BuiltBy(prop) == {i \in 1..Len(sessions) : sessions[i].by = prop}

\* C15: over any series of accesses from any HTTP addresses, one after
\* another, each of the two sessions is constructed at most once, each
\* property always returns the same object, and the two objects differ.
C15_SessionsCachedOnce ==
    /\ Cardinality(BuiltBy("session")) <= 1
    /\ Cardinality(BuiltBy("upload_session")) <= 1
    /\ Cardinality(handed.session) <= 1
    /\ Cardinality(handed.upload_session) <= 1
    /\ handed.session \cap handed.upload_session = {}

C15_Witness ==
    /\ lastGet.prop = "session" /\ lastGet.raised = "none" /\ ~lastGet.built
    /\ handed.session = {2}
    /\ handed.upload_session = {1}
    /\ sessions[1].s.root # sessions[2].s.root

\* C17: with a bearer token configured, every session constructed
\* authenticates with the token and carries no client certificate, whatever
\* the certificate and key settings are.
C17_TokenTakesPrecedence ==
    osenv.token # ""
        => \A i \in 1..Len(sessions) :
              /\ sessions[i].s.auth.kind = "bearer"
              /\ sessions[i].s.auth.token = "ABCDE"
              /\ sessions[i].s.cert = <<>>

C17_Witness ==
    /\ osenv.token = "ABCDE" /\ osenv.cert = "/cert" /\ osenv.key = "/key"
    /\ osenv.keymode = 256
    /\ lastGet.built
    /\ sessions[lastGet.ret].s.auth.kind = "bearer"

ExactlyOneOfCertKey == (osenv.cert # "") # (osenv.key # "")

\* C18 as stated: in every configuration with exactly one of client
\* certificate and client key set, constructing a session raises ValueError
\* and no session results.
C18_OneOfCertKeyRejected ==
    (lastGet.prop # "none" /\ ExactlyOneOfCertKey)
        => lastGet.raised = "ValueError" /\ sessions = <<>>

\* C18 amended: in every configuration with no bearer token and exactly one
\* of client certificate and client key set, constructing a session raises
\* ValueError and no session results.
C18_OneOfCertKeyRejectedWithoutToken ==
    (lastGet.prop # "none" /\ ExactlyOneOfCertKey /\ osenv.token = "")
        => lastGet.raised = "ValueError" /\ sessions = <<>>

C18_Witness ==
    /\ lastGet.prop = "upload_session" /\ osenv.token = ""
    /\ osenv.cert = "" /\ osenv.key = "/key" /\ osenv.keymode = 420
    /\ lastGet.raised = "ValueError"

\* Permission bits that grant something to group or other / to the owner.
GroupOrOther(mode) == mode % 64 # 0

Owner(mode) == mode \div 64 # 0

\* The credential file a construction consults: the token file when the
\* token variable names a file, the key file when no token is set and both
\* certificate and key are.
TokenFileInUse == osenv.token = "/token"

KeyFileInUse == osenv.token = "" /\ osenv.cert # "" /\ osenv.key = "/key"

\* C19: a session uses a token file or key file only if the file's mode
\* grants something to the owner and nothing to group or other; with any
\* group or other bit set on the file in use, construction raises
\* PermissionError and no session results.
C19_CredentialFilesOwnerOnly ==
    /\ \A i \in 1..Len(sessions) :
          /\ sessions[i].s.auth.path # ""
                => Owner(osenv.tokenmode) /\ ~GroupOrOther(osenv.tokenmode)
          /\ sessions[i].s.cert # <<>>
                => Owner(osenv.keymode) /\ ~GroupOrOther(osenv.keymode)
    /\ (lastGet.prop # "none" /\ TokenFileInUse /\ GroupOrOther(osenv.tokenmode))
          => lastGet.raised = "PermissionError" /\ sessions = <<>>
    /\ (lastGet.prop # "none" /\ KeyFileInUse /\ GroupOrOther(osenv.keymode))
          => lastGet.raised = "PermissionError" /\ sessions = <<>>

C19_Witness ==
    /\ lastGet.prop = "session" /\ TokenFileInUse
    /\ osenv.tokenmode = 256 + 4
    /\ lastGet.raised = "PermissionError" /\ sessions = <<>>

(***************************************************************************)
(* The session properties run by two threads: every read and write of the  *)
(* class attribute is a step of its own, a thread switch may fall between  *)
(* any two.  The caller then sends a request on what the property returned.*)
(***************************************************************************)
MaxCalls == 2

Properties == {"session", "upload_session"}

ThreadStep(t, next) ==
    /\ thr' = [thr EXCEPT ![t] = next]
    /\ UNCHANGED <<osenv, handed, lastGet, hvars, tvars, wvars, avars, fvars>>

\* self.session / self.upload_session is evaluated
T_Call(t) ==
    /\ thr[t].pc = "idle" /\ thr[t].calls < MaxCalls
    /\ \E prop \in Properties :
          ThreadStep(t, [thr[t] EXCEPT !.pc = "check", !.prop = prop, !.ret = 0,
                                       !.new = 0, !.sentOn = 0, !.calls = @ + 1])
    /\ UNCHANGED <<sessions, cls>>

\* if cls._session:
T_Check(t) ==
    /\ thr[t].pc = "check"
    /\ ThreadStep(t, [thr[t] EXCEPT !.pc = IF Cached(cls[thr[t].prop])
                                          THEN "cached" ELSE "construct"])
    /\ UNCHANGED <<sessions, cls>>

\* return cls._session   (the attribute is set)
T_ReturnCached(t) ==
    /\ thr[t].pc = "cached"
    /\ ThreadStep(t, [thr[t] EXCEPT !.pc = "send", !.ret = cls[thr[t].prop]])
    /\ UNCHANGED <<sessions, cls>>

\* _get_http_session(self)
T_Construct(t) ==
    /\ thr[t].pc = "construct"
    /\ LET r == get_http_session(osenv, "https://h1/")
       IN  /\ r.raised = "none"
           /\ sessions' = Append(sessions, [s |-> r.session, by |-> thr[t].prop])
    /\ ThreadStep(t, [thr[t] EXCEPT !.pc = "store", !.new = Len(sessions) + 1])
    /\ UNCHANGED cls

\* cls._session = <the new session>
T_Store(t) ==
    /\ thr[t].pc = "store"
    /\ cls' = [cls EXCEPT ![thr[t].prop] = thr[t].new]
    /\ ThreadStep(t, [thr[t] EXCEPT !.pc = "stored"])
    /\ UNCHANGED sessions

\* return cls._session   (after the assignment)
T_ReturnStored(t) ==
    /\ thr[t].pc = "stored"
    /\ ThreadStep(t, [thr[t] EXCEPT !.pc = "send", !.ret = cls[thr[t].prop]])
    /\ UNCHANGED <<sessions, cls>>

\* the caller's request on the object it got, e.g. self.session.head(...)
T_Request(t) ==
    /\ thr[t].pc = "send"
    /\ ThreadStep(t, [thr[t] EXCEPT !.pc = "idle", !.sentOn = thr[t].ret])
    /\ UNCHANGED <<sessions, cls>>

RaceInit ==
    /\ HandleIdle
    /\ AuthIdle
    /\ FileIdle
    /\ TransferIdle
    /\ WebIdle
    /\ SessionIdle

RaceNext ==
    \E t \in Threads :
        \/ T_Call(t) \/ T_Check(t) \/ T_ReturnCached(t) \/ T_Construct(t)
        \/ T_Store(t) \/ T_ReturnStored(t) \/ T_Request(t)

RaceSpec == RaceInit /\ [][RaceNext]_vars

\* C16: when two threads race on the first access, every caller obtains
\* the one session that is cached, and no request is sent on a session that
\* is not the cached one.
C16_LoserDiscarded ==
    \A t \in Threads :
        /\ thr[t].ret # 0 => thr[t].ret = cls[thr[t].prop]
        /\ thr[t].sentOn # 0 => thr[t].sentOn = cls[thr[t].prop]

(***************************************************************************)
(* Operations of HttpResourcePath (mkdir, read, write, is_webdav_endpoint) *)
(* and S3ResourcePath.write.  Each method is an operator from the world    *)
(* before the call to the world after it and the call's outcome; the       *)
(* world's log holds the requests the call issued.  A server answers HEAD  *)
(* truthfully; the other methods answer by what the address holds unless   *)
(* the server's fault names the method.                                    *)
(***************************************************************************)
MaxWebCalls == 2

MaxDavCalls == 3

World ==
    [holds |-> server.holds, fault |-> server.fault, redirect |-> server.redirect,
     dav |-> davhdr, lru |-> lru, inst |-> inst, env |-> osenv,
     log |-> <<>>, options |-> wreqs.options]

Res(w, raised) == [w |-> w, raised |-> raised, body |-> <<>>, answer |-> "none", status |-> 0]

\* One request: method, address, the session it goes through ("requests"
\* for the module-level functions), the body, the URL it is sent to and
\* whether it carries Expect: 100-continue.
Sent(w, m, a, via, body, url, expect) ==
    [w EXCEPT !.log = Append(@, [m |-> m, a |-> a, via |-> via, body |-> body,
                                  url |-> url, expect |-> expect])]

\* ResourcePath.parent(): the directory above; the root is its own parent.
parent(a) ==
    Path(a.root, IF a.names = <<>> THEN <<>> ELSE SubSeq(a.names, 1, Len(a.names) - 1), TRUE)

\* ResourcePath.root_uri()
root_uri(a) == Path(a.root, <<>>, TRUE)

\* The status the server answers.
Status(w, m, a) ==
    IF w.fault.m = m THEN w.fault.status
    ELSE IF m \in {"HEAD", "GET"} THEN (IF w.holds[a].exists THEN 200 ELSE 404)
    ELSE IF m = "PUT" THEN (IF w.holds[a].exists THEN 204 ELSE 201)
    ELSE IF m = "MKCOL" THEN (IF w.holds[a].exists THEN 405
                              ELSE IF ~w.holds[parent(a)].exists THEN 409 ELSE 201)
    ELSE 200

\* HttpResourcePath.exists
exists(w, a) ==
    LET w1 == Sent(w, "HEAD", a, "session", <<>>, "front", FALSE)
    IN  [Res(w1, "none") EXCEPT !.answer = IF Status(w, "HEAD", a) = 200 THEN "yes" ELSE "no",
                                !.status = Status(w, "HEAD", a)]

LruHit_never(entry) == FALSE

\* functools.lru_cache: the call was made before with this argument
LruHit(entry) == entry # "miss"

\* isWebdavEndpoint(path), under functools.lru_cache
isWebdavEndpoint(w, root) ==
    IF LruHit(w.lru.dav[root])
    THEN [Res(w, "none") EXCEPT !.answer = w.lru.dav[root]]
    ELSE LET r  == IF w.dav[root] THEN "yes" ELSE "no"
             w1 == Sent(w, "OPTIONS", Path(root, <<>>, TRUE), "requests", <<>>, "front", FALSE)
             w2 == [w1 EXCEPT !.options[root] = @ + 1, !.lru.dav[root] = r]
         IN  [Res(w2, "none") EXCEPT !.answer = r]

\* HttpResourcePath.is_webdav_endpoint on the long-lived instance of a, or
\* (fresh) on a new instance of the same address.
is_webdav_endpoint(w, a, fresh) ==
    IF ~fresh /\ w.inst[a] # "None"
    THEN [Res(w, "none") EXCEPT !.answer = w.inst[a]]
    ELSE LET r == isWebdavEndpoint(w, root_uri(a).root)
         IN  IF fresh THEN r
             ELSE [r EXCEPT !.w.inst[a] = r.answer]

NotWebdav_inverted(answer) == answer = "yes"

\* if not self.is_webdav_endpoint
NotWebdav(answer) == answer = "no"

MayExist_never(status) == FALSE

\* if resp.status_code == 405: "may already exist: skipping"
MayExist(status) == status = 405

RECURSIVE mkdir(_, _, _)
\* HttpResourcePath.mkdir
mkdir(w, a, fresh) ==
    LET d == is_webdav_endpoint(w, a, fresh)
    IN  IF NotWebdav(d.answer) THEN Res(d.w, "NotImplementedError")
        ELSE IF ~a.dir THEN Res(d.w, "ValueError")
        ELSE LET e == exists(d.w, a)
             IN  IF e.answer = "yes" THEN Res(e.w, "none")
                 ELSE LET pe == exists(e.w, parent(a))
                          pm == IF pe.answer = "no" /\ parent(a) # a
                                THEN mkdir(pe.w, parent(a), TRUE)
                                ELSE Res(pe.w, "none")
                      IN  IF pm.raised # "none" THEN pm
                          ELSE LET w1 == Sent(pm.w, "MKCOL", a, "session", <<>>, "front", FALSE)
                                   st == Status(pm.w, "MKCOL", a)
                               IN  IF st = 201
                                   THEN [Res([w1 EXCEPT !.holds[a] = Holding(<<>>)], "none")
                                            EXCEPT !.status = st]
                                   ELSE IF MayExist(st) THEN [Res(w1, "none") EXCEPT !.status = st]
                                   ELSE [Res(w1, "ValueError") EXCEPT !.status = st]


NotOk_only404(status) == status = 404

\* if resp.status_code != 200
NotOk(status) == status # 200

\* HttpResourcePath.read(size); a fault status of -1 is a request that
\* raises instead of answering.
http_read(w, a, size) ==
    LET w1 == Sent(w, "GET", a, "session", <<>>, "front", FALSE)
        st == Status(w, "GET", a)
        content == w.holds[a].body
    IN  IF st = -1 THEN Res(w1, "RequestException")
        ELSE IF NotOk(st) THEN [Res(w1, "FileNotFoundError") EXCEPT !.status = st]
        ELSE IF ~(size > 0) THEN [Res(w1, "none") EXCEPT !.body = content, !.status = st]
        ELSE IF content = <<>> THEN [Res(w1, "StopIteration") EXCEPT !.status = st]
        ELSE [Res(w1, "none") EXCEPT !.body = SubSeq(content, 1, Min(size, Len(content))),
                                     !.status = st]

\* _send_expect_header_on_put(), under functools.lru_cache
send_expect_header_on_put(w) ==
    IF LruHit(w.lru.expect)
    THEN [Res(w, "none") EXCEPT !.answer = w.lru.expect]
    ELSE LET r == IF w.env.expect THEN "yes" ELSE "no"
         IN  [Res([w EXCEPT !.lru.expect = r], "none") EXCEPT !.answer = r]

Accepted(status) == status \in {201, 202, 204}

Redirected_never(status) == FALSE

\* resp.is_redirect or resp.is_permanent_redirect
Redirected(status) == status \in {301, 302, 303, 307, 308}

\* HttpResourcePath._do_put(data); a fault status of -1 is a PUT that
\* raises instead of answering.  The probe goes out with
\* allow_redirects=False: a redirect is its answer, not followed.
do_put(w, a, data) ==
    LET x   == send_expect_header_on_put(w)
        st1 == IF w.fault.m = "PUT" THEN w.fault.status
               ELSE IF w.redirect THEN 307 ELSE Status(w, "PUT", a)
        w1  == IF x.answer = "yes"
               THEN LET p == Sent(x.w, "PUT", a, "upload_session", <<>>, "front", TRUE)
                    IN  IF Accepted(st1) THEN [p EXCEPT !.holds[a] = Holding(<<>>)] ELSE p
               ELSE x.w
        final_url == IF x.answer = "yes" /\ Redirected(st1) THEN "backend" ELSE "front"
        w2  == Sent(w1, "PUT", a, "upload_session", data, final_url, FALSE)
        st2 == Status(w1, "PUT", a)
    IN  IF x.answer = "yes" /\ st1 = -1 THEN Res(w1, "RequestException")
        ELSE IF st2 = -1 THEN Res(w2, "RequestException")
        ELSE IF Accepted(st2)
        THEN [Res([w2 EXCEPT !.holds[a] = Holding(data)], "none") EXCEPT !.status = st2]
        ELSE [Res(w2, "ValueError") EXCEPT !.status = st2]

KeepExisting_ignored(overwrite, found) == FALSE

\* "if not overwrite: if self.exists(): raise FileExistsError", given what
\* exists() answered
KeepExisting(overwrite, found) == ~overwrite /\ found = "yes"

\* HttpResourcePath.write(data, overwrite)
http_write(w, a, data, overwrite) ==
    LET e  == IF overwrite THEN Res(w, "none") ELSE exists(w, a)
    IN  IF KeepExisting(overwrite, e.answer) THEN Res(e.w, "FileExistsError")
        ELSE do_put(e.w, a, data)

\* S3ResourcePath.exists: head_object
s3_exists(w, a) ==
    LET w1 == Sent(w, "head_object", a, "client", <<>>, "front", FALSE)
    IN  [Res(w1, "none") EXCEPT !.answer = IF w.holds[a].exists THEN "yes" ELSE "no"]

RECURSIVE s3_write(_, _, _, _, _)
\* S3ResourcePath.write(data, overwrite) under backoff.on_exception: a
\* retryable error of put_object runs the method again, tries times so far.
s3_write(w, a, data, overwrite, tries) ==
    LET e  == IF overwrite THEN Res(w, "none") ELSE s3_exists(w, a)
    IN  IF KeepExisting(overwrite, e.answer) THEN Res(e.w, "FileExistsError")
        ELSE LET w1 == Sent(e.w, "put_object", a, "client", data, "front", FALSE)
             IN  IF w.fault.m = "put_object"
                 THEN IF tries < MaxRetries
                      THEN s3_write(w1, a, data, overwrite, tries + 1)
                      ELSE Res(w1, "TransientError")
                 ELSE Res([w1 EXCEPT !.holds[a] = Holding(data)], "none")

DavFaults == {NoFault, [m |-> "MKCOL", status |-> 500], [m |-> "HEAD", status |-> 404]}

IoFaults ==
    {NoFault, [m |-> "GET", status |-> 403], [m |-> "GET", status |-> -1],
     [m |-> "PUT", status |-> 403], [m |-> "PUT", status |-> -1],
     [m |-> "put_object", status |-> -1]}

ExistingBody2 == <<1, 2>>

NewData == <<7>>

\* The call op(a, ...) with outcome r.
WebCall(op, a, overwrite, r) ==
    /\ server' = [server EXCEPT !.holds = r.w.holds]
    /\ lru' = r.w.lru
    /\ inst' = r.w.inst
    /\ wreqs' = [log |-> r.w.log, options |-> r.w.options]
    /\ lastCall' = [op |-> op, a |-> a, raised |-> r.raised, body |-> r.body,
                    answer |-> r.answer, status |-> r.status, overwrite |-> overwrite,
                    before |-> server.holds, n |-> lastCall.n + 1]
    /\ UNCHANGED <<davhdr, svars, hvars, tvars, avars, fvars>>

Mkdir ==
    /\ lastCall.n < MaxDavCalls
    /\ \E a \in HttpPaths, fresh \in BOOLEAN :
          WebCall("mkdir", a, FALSE, mkdir(World, a, fresh))

IsWebdavEndpoint ==
    /\ lastCall.n < MaxDavCalls
    /\ \E a \in HttpPaths, fresh \in BOOLEAN :
          WebCall("is_webdav_endpoint", a, FALSE, is_webdav_endpoint(World, a, fresh))

HttpRead ==
    /\ lastCall.n < MaxWebCalls
    /\ \E a \in HttpPaths, size \in {-1, 1} :
          /\ ~a.dir
          /\ WebCall(IF size > 0 THEN "read_size" ELSE "read", a, FALSE,
                     http_read(World, a, size))

HttpWrite ==
    /\ lastCall.n < MaxWebCalls
    /\ \E a \in HttpPaths, overwrite \in BOOLEAN :
          /\ ~a.dir
          /\ WebCall("write", a, overwrite, http_write(World, a, NewData, overwrite))

S3Write ==
    /\ lastCall.n < MaxWebCalls
    /\ \E a \in S3Paths, overwrite \in BOOLEAN :
          WebCall("write", a, overwrite, s3_write(World, a, NewData, overwrite, 0))

\* Everything but the servers and the environment, before the first call.
WebStart ==
    /\ HandleIdle
    /\ AuthIdle
    /\ FileIdle
    /\ TransferIdle
    /\ sessions = <<>>
    /\ cls = [session |-> 0, upload_session |-> 0]
    /\ handed = [session |-> {}, upload_session |-> {}]
    /\ lastGet = NoGet
    /\ thr = [t \in Threads |-> IdleThread]
    /\ lru = [dav |-> [r \in Roots |-> "miss"], expect |-> "miss"]
    /\ inst = [a \in HttpPaths |-> "None"]
    /\ wreqs = [log |-> <<>>, options |-> [r \in Roots |-> 0]]
    /\ lastCall = NoOp

\* What the servers may hold: the roots exist, nothing exists below a
\* missing directory, directories have no bytes.
Holdings ==
    {holds \in [Paths -> {Gone, Holding(<<>>), Holding(ExistingBody2)}] :
        /\ \A a \in Paths : a.dir => holds[a] # Holding(ExistingBody2)
        /\ \A a \in Paths : a.names = <<>> => holds[a].exists
        /\ \A a \in HttpPaths : holds[a].exists => holds[parent(a)].exists}

\* Directories and the WebDAV probe: any tree of directories, endpoints with
\* and without WebDAV, MKCOL answered or failing.
DavInit ==
    /\ WebStart
    /\ osenv = NoEnv
    /\ \E holds \in Holdings, f \in DavFaults :
          /\ \A a \in Paths : ~a.dir => holds[a] # Holding(<<>>)
          /\ \A a \in S3Paths : ~holds[a].exists
          /\ server = [holds |-> holds, fault |-> f, redirect |-> FALSE]
    /\ davhdr \in [Roots -> BOOLEAN]

DavNext == Mkdir \/ IsWebdavEndpoint

DavSpec == DavInit /\ [][DavNext]_vars

\* Reading and writing files: files present (with or without bytes) or
\* missing, the Expect header on or off, a redirecting server, requests
\* answered or failing.
IoInit ==
    /\ WebStart
    /\ osenv \in {[NoEnv EXCEPT !.expect = x] : x \in BOOLEAN}
    /\ \E holds \in Holdings, f \in IoFaults, redirect \in BOOLEAN :
          /\ \A a \in HttpPaths : a.dir => holds[a].exists
          /\ server = [holds |-> holds, fault |-> f, redirect |-> redirect]
    /\ davhdr = [r \in Roots |-> FALSE]

IoNext == HttpRead \/ HttpWrite \/ S3Write

IoSpec == IoInit /\ [][IoNext]_vars

(***************************************************************************)
(* Properties of the HTTP and S3 operations, under DavSpec and IoSpec.     *)
(***************************************************************************)
Logged(methods) == \E i \in 1..Len(wreqs.log) : wreqs.log[i].m \in methods

\* C12: mkdir() on an HTTP address whose endpoint answers OPTIONS without a
\* DAV header raises NotImplementedError; the call sends no MKCOL and
\* creates nothing.
C12_MkdirNeedsWebdav ==
    (lastCall.op = "mkdir" /\ ~davhdr[lastCall.a.root])
        => /\ lastCall.raised = "NotImplementedError"
           /\ ~Logged({"MKCOL"})
           /\ server.holds = lastCall.before

C12_Witness ==
    /\ lastCall.op = "mkdir" /\ ~davhdr[lastCall.a.root]
    /\ lastCall.a = Path("https://h1/", <<"d", "e">>, TRUE)
    /\ ~server.holds[lastCall.a].exists
    /\ lastCall.raised = "NotImplementedError"
    /\ Logged({"OPTIONS"})

\* The addresses the call sent MKCOL to, in the order sent.
MkcolsSent ==
    LET mk == SelectSeq(wreqs.log, LAMBDA r : r.m = "MKCOL")
    IN  [i \in 1..Len(mk) |-> mk[i].a]

\* The directories from the root down to a, a included.
Chain(a) == [i \in 1..(Len(a.names) + 1) |-> Path(a.root, SubSeq(a.names, 1, i - 1), TRUE)]

\* What exists() answered for p during the call: some servers answer HEAD
\* on a directory with an error status although it exists.
SeenMissing(p) == server.fault.m = "HEAD" \/ ~lastCall.before[p].exists

\* The directories of the chain that exists() found missing, shallowest
\* first.
MissingBefore(a) == SelectSeq(Chain(a), SeenMissing)

\* C35: mkdir() on a WebDAV endpoint.  An address that is not directory-like
\* raises ValueError and a directory that exists() finds returns, both
\* without any MKCOL.  For a missing directory the MKCOLs go to its missing
\* ancestors from the shallowest down (from the root, which is its own
\* parent, at most) and to the directory itself last; answered 201 or 405
\* each, the call returns with every directory of the chain in place; the
\* first MKCOL answered otherwise ends the call with ValueError.
C35_MkdirCreatesMissingChain ==
    (lastCall.op = "mkdir" /\ davhdr[lastCall.a.root])
        => LET a == lastCall.a
               missing == MissingBefore(a)
           IN  IF ~a.dir
               THEN lastCall.raised = "ValueError" /\ MkcolsSent = <<>>
               ELSE IF ~SeenMissing(a)
               THEN lastCall.raised = "none" /\ MkcolsSent = <<>>
                    /\ server.holds = lastCall.before
               ELSE IF server.fault.m # "MKCOL"
               THEN /\ lastCall.raised = "none"
                    /\ lastCall.status \in {201, 405}
                    /\ MkcolsSent = missing
                    /\ \A p \in HttpPaths :
                          server.holds[p].exists
                              <=> \/ lastCall.before[p].exists
                                  \/ \E i \in 1..Len(missing) : missing[i] = p
               ELSE /\ lastCall.raised = "ValueError"
                    /\ MkcolsSent = <<missing[1]>>
                    /\ server.holds = lastCall.before

\* C35 witness: mkdir() of d/e/ when neither d/ nor d/e/ existed sent MKCOL
\* for d/ and then for d/e/ and created both.
C35_Witness ==
    /\ lastCall.op = "mkdir" /\ davhdr[lastCall.a.root]
    /\ lastCall.a = Path("https://h1/", <<"d", "e">>, TRUE)
    /\ ~lastCall.before[Path("https://h1/", <<"d">>, TRUE)].exists
    /\ server.fault = NoFault
    /\ lastCall.raised = "none"
    /\ MkcolsSent = <<Path("https://h1/", <<"d">>, TRUE), lastCall.a>>
    /\ server.holds[lastCall.a].exists

\* A server that hides its directories from HEAD: mkdir() of d/e/ went up
\* to the root, stopped there, and the MKCOLs answered 405 counted as done.
MkcolAnswered405 ==
    /\ lastCall.op = "mkdir" /\ davhdr[lastCall.a.root]
    /\ lastCall.a = Path("https://h1/", <<"d", "e">>, TRUE)
    /\ lastCall.before[lastCall.a].exists
    /\ MkcolsSent = Chain(lastCall.a)
    /\ lastCall.status = 405
    /\ lastCall.raised = "none"

C14_WriteKeepsExisting ==
    (lastCall.op = "write" /\ ~lastCall.overwrite /\ lastCall.before[lastCall.a].exists)
        => /\ lastCall.raised = "FileExistsError"
           /\ ~Logged({"PUT", "put_object"})
           /\ server.holds = lastCall.before

C14_Witness ==
    /\ lastCall.op = "write" /\ ~lastCall.overwrite
    /\ lastCall.a \in HttpPaths
    /\ lastCall.before[lastCall.a] = Holding(ExistingBody2)
    /\ osenv.expect
    /\ lastCall.raised = "FileExistsError"
    /\ Len(wreqs.log) = 1 /\ wreqs.log[1].m = "HEAD"

\* The PUT requests of the latest call, in the order they were sent.
Puts == SelectSeq(wreqs.log, LAMBDA r : r.m = "PUT")

\* The server answers the probe of the latest call with a redirect.
ProbeRedirected == server.redirect /\ server.fault.m # "PUT"

\* C30: a write() of an HTTP address that is not refused for an existing
\* destination sends, with the Expect header enabled, first a PUT without
\* body carrying Expect: 100-continue to the original URL (a redirect is its
\* answer, not followed) and then, unless that request raised, exactly one
\* PUT with the payload, to the probe's Location when the probe was
\* redirected and to the original URL otherwise; with the header disabled
\* it sends exactly one PUT, with the payload, to the original URL.  A
\* refused write sends no PUT.
C30_ProbeThenPayload ==
    (lastCall.op = "write" /\ lastCall.a \in HttpPaths)
        => IF lastCall.raised = "FileExistsError" THEN Puts = <<>>
           ELSE IF osenv.expect
           THEN /\ Len(Puts) >= 1
                /\ Puts[1].body = <<>> /\ Puts[1].expect /\ Puts[1].url = "front"
                /\ IF lastCall.raised = "RequestException" THEN Len(Puts) = 1
                   ELSE /\ Len(Puts) = 2
                        /\ Puts[2].body = NewData /\ ~Puts[2].expect
                        /\ Puts[2].url = IF ProbeRedirected THEN "backend" ELSE "front"
           ELSE /\ Len(Puts) = 1
                /\ Puts[1].body = NewData /\ ~Puts[1].expect /\ Puts[1].url = "front"

\* C30 witness: with the Expect header enabled a write without overwrite
\* found no destination, its probe was redirected and its payload went to
\* the redirect's location, where the server stored it.
C30_Witness ==
    /\ lastCall.op = "write" /\ lastCall.a \in HttpPaths
    /\ ~lastCall.overwrite
    /\ osenv.expect /\ ProbeRedirected
    /\ lastCall.raised = "none"
    /\ Len(wreqs.log) = 3
    /\ wreqs.log[1].m = "HEAD"
    /\ wreqs.log[2].body = <<>> /\ wreqs.log[2].url = "front"
    /\ wreqs.log[3].body = NewData /\ wreqs.log[3].url = "backend"
    /\ server.holds[lastCall.a] = Holding(NewData)

\* C20: over any series of mkdir and is_webdav_endpoint calls each root
\* receives at most one OPTIONS request, and every check after it answers
\* what that probe found: the answer kept for the root, which every
\* instance's own copy repeats.
C20_OneProbePerHost ==
    /\ \A r \in Roots :
          /\ wreqs.options[r] <= 1
          /\ wreqs.options[r] = 0 <=> lru.dav[r] = "miss"
          /\ lru.dav[r] # "miss" => lru.dav[r] = (IF davhdr[r] THEN "yes" ELSE "no")
    /\ \A a \in HttpPaths : inst[a] \in {"None", lru.dav[a.root]}
    /\ lastCall.op = "is_webdav_endpoint" => lastCall.answer = lru.dav[lastCall.a.root]
    /\ lastCall.op = "mkdir"
          => (lastCall.raised = "NotImplementedError" <=> lru.dav[lastCall.a.root] = "no")

C20_Witness ==
    /\ lastCall.n = 3
    /\ lastCall.op = "mkdir" /\ lastCall.a = Path("https://h1/", <<"d", "e">>, TRUE)
    /\ lastCall.raised = "none"
    /\ Logged({"MKCOL"}) /\ ~Logged({"OPTIONS"})
    /\ inst[lastCall.a] = "None"
    /\ inst[Path("https://h1/", <<"d", "f">>, FALSE)] = "yes"
    /\ wreqs.options["https://h1/"] = 1

(***************************************************************************)
(* BearerTokenAuth over a token file: the file is rewritten from outside,  *)
(* each time with a later modification time; requests pass through the     *)
(* auth object, which re-reads the file when its mtime has advanced.       *)
(***************************************************************************)
MaxUpdates == 3

MaxRequests == 3

\* Texts of the token file, character by character: empty, a newline only,
\* a token with and without final newlines.
TokenTexts ==
    {<<>>, <<"\n">>, <<"A">>, <<"A", "\n">>, <<"B", "\n", "\n">>, <<"B">>}

RECURSIVE rstrip(_)
\* str.rstrip("\n")
rstrip(text) ==
    IF text # <<>> /\ text[Len(text)] = "\n"
    THEN rstrip(SubSeq(text, 1, Len(text) - 1))
    ELSE text

\* "Bearer {token}"
Bearer(token) == [scheme |-> "Bearer", credentials |-> token]

\* BearerTokenAuth._refresh
refresh(a, file) ==
    IF a.path = "" THEN a
    ELSE IF file.mtime > a.mtime
    THEN [a EXCEPT !.mtime = file.mtime, !.token = rstrip(file.text)]
    ELSE a

\* BearerTokenAuth.__call__(req): the object after the call and the
\* Authorization header of the request it returns.
auth_call(a, file) ==
    IF a.token # <<>>
    THEN LET r == refresh(a, file)
         IN  [auth |-> r, authorization |-> Bearer(r.token)]
    ELSE [auth |-> a, authorization |-> NoHeader]

\* BearerTokenAuth.__init__(token) for a token that names a protected file:
\* _token is the path until the first _refresh has read the file.
TokenFileAuth(path, file) ==
    refresh([token |-> <<path>>, path |-> path, mtime |-> -1], file)

\* The token file is rewritten (by whoever renews the token); its
\* modification time advances.
UpdateTokenFile ==
    /\ tokfile.mtime <= MaxUpdates
    /\ \E text \in TokenTexts :
          tokfile' = [text |-> text, mtime |-> tokfile.mtime + 1]
    /\ UNCHANGED <<bearer, lastReq, hvars, tvars, svars, wvars, fvars>>

\* A request is prepared on the session: requests calls session.auth(req).
AuthRequest ==
    /\ lastReq.n < MaxRequests
    /\ LET r == auth_call(bearer, tokfile)
       IN  /\ bearer' = r.auth
           /\ lastReq' = [n |-> lastReq.n + 1, authorization |-> r.authorization]
    /\ UNCHANGED <<tokfile, hvars, tvars, svars, wvars, fvars>>

\* A session was built with LSST_HTTP_AUTH_BEARER_TOKEN naming a token file
\* only its owner can read.
AuthInit ==
    /\ HandleIdle
    /\ FileIdle
    /\ TransferIdle
    /\ WebIdle
    /\ SessionIdle
    /\ \E text \in TokenTexts : tokfile = [text |-> text, mtime |-> 1]
    /\ bearer = TokenFileAuth("/token", tokfile)
    /\ lastReq = [n |-> 0, authorization |-> NoHeader]

AuthNext == UpdateTokenFile \/ AuthRequest

AuthSpec == AuthInit /\ [][AuthNext]_vars

\* C21: every request made when the token file's modification time is past
\* the one the auth object last observed carries the Authorization header
\* "Bearer" with the file's current text (without its final newlines),
\* whatever updates and requests came before.
C21_RequestCarriesCurrentToken ==
    [][(lastReq'.n = lastReq.n + 1 /\ tokfile.mtime > bearer.mtime)
       => lastReq'.authorization = Bearer(rstrip(tokfile.text))]_vars

(***************************************************************************)
(* FileResourceHandle: a handle over a Python file object opened on a      *)
(* local file.  The file object is modelled unbuffered: a position in the  *)
(* bytes on disk.                                                          *)
(***************************************************************************)
MaxFileOps == 4

FileModes_open == {"r", "r+", "w", "a"}

\* open(file=filename, mode=mode) on an existing file: the file object and
\* the bytes on disk after it.
open(mode, d) ==
    [file |-> [closed |-> FALSE, pos |-> IF mode = "a" THEN Len(d) ELSE 0],
     disk |-> IF mode = "w" THEN <<>> ELSE d]

\* A method of the Python file object f opened in mode on the bytes d:
\* the object and the bytes after the call, and what the call raised.
\* Every method but close() raises ValueError on a closed file.
FileIO(name, f, mode, d, arg) ==
    LET res(f1, d1, raised) == [file |-> f1, disk |-> d1, raised |-> raised]
    IN  IF name = "close" THEN res([f EXCEPT !.closed = TRUE], d, "none")
        ELSE IF f.closed THEN res(f, d, "ValueError")
        ELSE CASE name = "flush" -> res(f, d, "none")
               [] name = "write" ->
                      IF mode = "r" THEN res(f, d, "UnsupportedOperation")
                      ELSE LET at == IF mode = "a" THEN Len(d) ELSE f.pos
                           IN  res([f EXCEPT !.pos = at + Len(arg)],
                                   BytesIO_write(d, at, arg), "none")
               [] name = "read" ->
                      IF mode \in {"w", "a"} THEN res(f, d, "UnsupportedOperation")
                      ELSE res([f EXCEPT !.pos = @ + Len(BytesIO_read(d, f.pos, arg))],
                               d, "none")
               [] name = "seek" ->
                      LET to == CASE arg[2] = SEEK_SET -> arg[1]
                                  [] arg[2] = SEEK_CUR -> f.pos + arg[1]
                                  [] arg[2] = SEEK_END -> Len(d) + arg[1]
                      IN  IF to < 0 THEN res(f, d, "OSError")
                          ELSE res([f EXCEPT !.pos = to], d, "none")
               [] name = "truncate" ->
                      IF mode = "r" THEN res(f, d, "UnsupportedOperation")
                      ELSE res(f, BytesIO_truncate(d, f.pos, None), "none")

\* The method of self._fileHandle that each method of FileResourceHandle
\* calls: flush() calls close(), the others their namesake.
Delegate(method) == IF method = "flush" THEN "close" ELSE method

\* The call method(arg) on the FileResourceHandle, as one step; op names
\* the caller's operation (leaving the scope calls close()).
FileCall(op, method, arg) ==
    LET r == FileIO(Delegate(method), fobj.file, fobj.mode, disk, arg)
    IN  /\ fobj' = [fobj EXCEPT !.file = r.file]
        /\ disk' = r.disk
        /\ lastFileOp' = [n |-> lastFileOp.n + 1, op |-> op, raised |-> r.raised]
        /\ UNCHANGED <<hvars, tvars, svars, wvars, avars>>

\* BaseResourceHandle.__enter__ on the file handle
FileEnter ==
    /\ lastFileOp.n < MaxFileOps
    /\ fobj.closed = "UNSET"
    /\ fobj' = [fobj EXCEPT !.closed = "OPEN"]
    /\ lastFileOp' = [n |-> lastFileOp.n + 1, op |-> "enter", raised |-> "none"]
    /\ UNCHANGED <<disk, hvars, tvars, svars, wvars, avars>>

\* BaseResourceHandle.__exit__ on the file handle: self.close()
FileExit ==
    /\ lastFileOp.n < MaxFileOps
    /\ fobj.closed = "OPEN"
    /\ FileCall("exit", "close", 0)

FileClose ==
    /\ lastFileOp.n < MaxFileOps
    /\ FileCall("close", "close", 0)

FileFlush ==
    /\ lastFileOp.n < MaxFileOps
    /\ FileCall("flush", "flush", 0)

FileWrite ==
    /\ lastFileOp.n < MaxFileOps
    /\ FileCall("write", "write", <<7>>)

FileRead ==
    /\ lastFileOp.n < MaxFileOps
    /\ \E size \in {-1, 1} : FileCall("read", "read", size)

FileSeek ==
    /\ lastFileOp.n < MaxFileOps
    /\ \E a \in {<<0, SEEK_SET>>, <<1, SEEK_SET>>, <<-1, SEEK_CUR>>, <<0, SEEK_END>>} :
          FileCall("seek", "seek", a)

\* truncate(size) calls self._fileHandle.truncate(): the size is dropped.
FileTruncate ==
    /\ lastFileOp.n < MaxFileOps
    /\ FileCall("truncate", "truncate", None)

\* A caller has opened a FileResourceHandle on a file that holds
\* ExistingBody or nothing.
FileInit ==
    /\ HandleIdle
    /\ AuthIdle
    /\ TransferIdle
    /\ WebIdle
    /\ SessionIdle
    /\ \E mode \in FileModes_open, d \in {<<>>, ExistingBody} :
          /\ fobj = [closed |-> "UNSET", mode |-> mode, file |-> open(mode, d).file]
          /\ disk = open(mode, d).disk
    /\ lastFileOp = [n |-> 0, op |-> "init", raised |-> "none"]

FileNext ==
    \/ FileEnter
    \/ FileExit
    \/ FileClose
    \/ FileFlush
    \/ FileWrite
    \/ FileRead
    \/ FileSeek
    \/ FileTruncate

FileSpec == FileInit /\ [][FileNext]_vars

\* C23: for the S3 handle and for the file handle, closed becomes true only
\* in a close() call (made directly or on leaving the scope) that ran to
\* completion; no flush, write, seek or other call, and no close() that
\* raised, makes it true.
C23_ClosedOnlyAfterClose ==
    [][/\ (handle'.closed = "CLOSED" /\ handle.closed # "CLOSED")
          => IsCloseOp(lastOp'.op) /\ lastOp'.raised = "none"
       /\ (fobj'.file.closed /\ ~fobj.file.closed)
          => IsCloseOp(lastFileOp'.op) /\ lastFileOp'.raised = "none"]_vars

====
